---- MODULE Spec2Model ----
(***************************************************************************)
(* Model of src/src/pages/Connect.tsx: the Connect page component.         *)
(*                                                                         *)
(* The remote store (profiles, member_connections, media_page_follows,     *)
(* connection_requests, messages) is shared by all users.  Every signed-in *)
(* member has one mounted instance of the component with its own React     *)
(* state, its own local storage and its own in-flight asynchronous calls.  *)
(* Every `await` of the source is one action: the gateway call takes       *)
(* effect on the remote store at that step.  The code that runs after the  *)
(* last await of a function (setState calls, addToast, setTimeout) is a    *)
(* separate final action, so that other callbacks can run while the last   *)
(* response is on its way.                                                 *)
(***************************************************************************)
EXTENDS Integers, Sequences, FiniteSets, Bags, TLC

(***************************************************************************)
(* Universe and bounds                                                     *)
(***************************************************************************)
Members == {"A", "B", "C"}        \* profiles with account_type = 'member'
Creators == {"X", "Y"}            \* profiles with account_type = 'creator'
Ids == Members \cup Creators
Names == {"n1", "n2"}             \* display names creators may carry
FollowerCounts == {0, 1}          \* values of the followers column of a profile
MemberOrder == <<"A", "B", "C">>  \* row order of the profiles relation
CreatorOrder == <<"X", "Y">>
None == <<>>                      \* JavaScript null / undefined
Some(x) == <<x>>                  \* a value that is present

MaxOps == 2                       \* user operations started in one run
MaxPasses == 1                    \* overlapping passes of one load function
MaxToasts == 3                    \* toasts added in the toast specification
MaxDraft == 2                     \* length of the typed message draft
MaxFaults == 1                    \* gateway calls that return an error in one run
MaxOverlap == 2                   \* overlapping passes where passes may overlap

VARIABLES
  \* ---- remote store
  profiles,             \* [Ids -> [name, account_type, followers]]
  member_connections,   \* bag of [member_id, connected_user_id, connection_type]
  media_page_follows,   \* bag of [follower_id, creator_name]
  connection_requests,  \* sequence of [sender_id, recipient_id, status]; id = index
  messagesTable,        \* sequence of [sender_id, recipient_id, content, read]
  \* ---- per-user component state (useState)
  creators, members, connections, messages,
  creatorsLoaded, membersLoaded,
  selectedConnection, messageInput, toasts, pendingRequests,
  \* ---- per-user browser state
  localStorage,         \* [user -> [creators, members]] cached snapshots or None
  mounted,              \* the effects of the component have run
  subscriptions,        \* [user -> the channels the component is subscribed to]
  procs,                \* [user -> bag of in-flight async calls and pending timers]
  inbox,                \* [user -> set of change events not yet delivered]
  toastSeq,             \* [user -> number of toast ids generated so far]
  toastTimers,          \* [user -> ids of the toasts whose removal timer is pending, oldest first]
  ops,                  \* number of user operations started (bounded by MaxOps)
  faults,               \* number of gateway calls that returned an error
  history               \* history variable: the handlers that returned, in order,
                        \* as [user, op, id, ok, clean]: ok = the success branch
                        \* ran, clean = no gateway call of the handler failed;
                        \* an entry with id "superseded" records a pass that
                        \* wrote the view after a pass started later had;
                        \* read by the properties only

dbVars == <<profiles, member_connections, media_page_follows, connection_requests,
            messagesTable>>
viewVars == <<creators, members, connections, messages, creatorsLoaded, membersLoaded,
              selectedConnection, messageInput, pendingRequests>>
toastVars == <<toasts, toastSeq, toastTimers>>
sessionVars == <<mounted, subscriptions>>
vars ==
  <<dbVars, viewVars, toastVars, localStorage, sessionVars, procs, inbox, ops, faults,
    history>>

(***************************************************************************)
(* Helpers on bags and sequences                                           *)
(***************************************************************************)
BagAdd(B, e) == B (+) SetToBag({e})
BagRemoveOne(B, e) == B (-) SetToBag({e})
BagDelete(B, deleted) == [r \in (DOMAIN B) \ deleted |-> B[r]]
BagRows(B) == DOMAIN B

SeqSet(s) == {s[i] : i \in 1..Len(s)}

MCRow(m, c, t) == [member_id |-> m, connected_user_id |-> c, connection_type |-> t]
MediaRow(f, n) == [follower_id |-> f, creator_name |-> n]

(***************************************************************************)
(* Remote Data Gateway: the read queries of the component                  *)
(***************************************************************************)
\* from('profiles').select(...).eq('account_type','creator').limit(100)
QueryCreatorProfiles ==
  [i \in 1..Len(CreatorOrder) |->
     [id |-> CreatorOrder[i], name |-> profiles[CreatorOrder[i]].name,
      followers |-> profiles[CreatorOrder[i]].followers]]

\* from('member_connections').select('connected_user_id')
\*   .eq('member_id', u).eq('connection_type','follow')
QueryFollowedViaConnection(u) ==
  {r.connected_user_id : r \in {x \in BagRows(member_connections) :
        x.member_id = u /\ x.connection_type = "follow"}}

\* from('media_page_follows').select('creator_name').eq('follower_id', u)
QueryFollowedViaMedia(u) ==
  {r.creator_name : r \in {x \in BagRows(media_page_follows) : x.follower_id = u}}

(***************************************************************************)
(* Gateway calls: a call returns its result or an error                    *)
(***************************************************************************)
Outcomes == IF faults < MaxFaults THEN BOOLEAN ELSE {TRUE}
Call(ok) == faults' = IF ok THEN faults ELSE faults + 1
\* the call that follows a failed call of the same handler may fail as well
\* (the same outage), whatever the budget
OutcomesAfter(failed) == IF failed THEN BOOLEAN ELSE Outcomes

(***************************************************************************)
(* In-flight calls                                                         *)
(***************************************************************************)
ProcAdd(u, p) == procs' = [procs EXCEPT ![u] = BagAdd(@, p)]
ProcRemove(u, p) == procs' = [procs EXCEPT ![u] = BagRemoveOne(@, p)]
ProcReplace(u, p, q) == procs' = [procs EXCEPT ![u] = BagAdd(BagRemoveOne(@, p), q)]
ProcsOf(u, kind) == {p \in BagRows(procs[u]) : p.kind = kind}
PassCount(u, kind) ==
  BagCardinality(BagDelete(procs[u], {p \in BagRows(procs[u]) : p.kind # kind}))
\* fewer than n calls of one load function are in flight
PassesBelow(u, kind, n) == PassCount(u, kind) < n

\* the local variables of a loadCreators call before its first await; age and
\* superseded are history fields read by the properties only: the number of
\* calls of the same function started since this one, and whether one of them
\* has already written the view
NewLoadCreators ==
  [kind |-> "loadCreators", pc |-> "profiles", data |-> None,
   memberConnectionsData |-> None, mediaFollowsData |-> None,
   age |-> 0, superseded |-> FALSE]
\* a pending setTimeout(() => fn(), delay)
NewTimer(fn) == [kind |-> "timer", fn |-> fn]

\* the local variables of the other load functions before their first await
NewLoadMembers ==
  [kind |-> "loadMembers", pc |-> "profiles", data |-> None,
   outgoingConnections |-> None, incomingConnections |-> None,
   allConnectionsData |-> None, sentRequests |-> None,
   age |-> 0, superseded |-> FALSE]
NewLoadConnections ==
  [kind |-> "loadConnections", pc |-> "outgoing", outgoingData |-> None,
   incomingData |-> None]
NewLoadMessages == [kind |-> "loadMessages", pc |-> "messages", data |-> None]
NewPass(fn) ==
  CASE fn = "loadCreators" -> NewLoadCreators
    [] fn = "loadMembers" -> NewLoadMembers
    [] fn = "loadConnections" -> NewLoadConnections
    [] fn = "loadMessages" -> NewLoadMessages

\* starting calls: the calls of the same load functions that are in flight
\* become one call older
PassKinds == {"loadCreators", "loadMembers"}
AgeIf(r, kinds) == IF r.kind \in kinds THEN [r EXCEPT !.age = @ + 1] ELSE r
Aged(B, kinds) ==
  [q \in {AgeIf(r, kinds) : r \in DOMAIN B} |->
     B[CHOOSE r \in DOMAIN B : AgeIf(r, kinds) = q]]
StartCalls(B, new) ==
  Aged(B, {n.kind : n \in new} \cap PassKinds) (+) SetToBag(new)
\* a pass p writes the view: the passes in flight that were started before it
\* are superseded
SupersedeIf(r, p) ==
  IF r.kind = p.kind /\ r.age > p.age THEN [r EXCEPT !.superseded = TRUE] ELSE r
Superseding(B, p) ==
  [q \in {SupersedeIf(r, p) : r \in DOMAIN B} |->
     B[CHOOSE r \in DOMAIN B : SupersedeIf(r, p) = q]]
ProcStart(u, new) == procs' = [procs EXCEPT ![u] = StartCalls(@, new)]
PassWrites_latest(p) == ~p.superseded
\* a pass that reaches its end writes the view: the set-state calls are not
\* guarded by a check that the pass is still the latest one
PassWrites(p) == TRUE
PassCommits(u, p) ==
  /\ procs' = [procs EXCEPT ![u] = Superseding(BagRemoveOne(@, p), p)]
  /\ history' = IF p.superseded
                THEN Append(history, [user |-> u, op |-> p.kind, id |-> "superseded",
                                      ok |-> TRUE, clean |-> TRUE])
                ELSE history

(***************************************************************************)
(* Notification Dispatcher                                                 *)
(***************************************************************************)
RemoveToast_keep(prev, id) ==
  LET Same(t) == t.id = id IN SelectSeq(prev, Same)
\* prev.filter((t) => t.id !== id)
RemoveToast(prev, id) ==
  LET Other(t) == t.id # id IN SelectSeq(prev, Other)

addToast_dedup(u, message, type) ==
  /\ toastSeq' = [toastSeq EXCEPT ![u] = @ + 1]
  /\ toasts' = [toasts EXCEPT ![u] =
                   IF \E i \in 1..Len(@) : @[i].message = message
                   THEN @
                   ELSE Append(@, [id |-> toastSeq[u] + 1, type |-> type,
                                   message |-> message])]
  /\ toastTimers' = [toastTimers EXCEPT ![u] = Append(@, toastSeq[u] + 1)]

\* addToast: a fresh id (Math.random), append at the tail, removal timer set
addToast(u, message, type) ==
  /\ toastSeq' = [toastSeq EXCEPT ![u] = @ + 1]
  /\ toasts' = [toasts EXCEPT ![u] =
                   Append(@, [id |-> toastSeq[u] + 1, type |-> type,
                              message |-> message])]
  /\ toastTimers' = [toastTimers EXCEPT ![u] = Append(@, toastSeq[u] + 1)]

\* the callback of the timer set by addToast for the toast `id`; the timers
\* all have the same delay, so they fire in the order they were set
ToastTimeout(u) ==
  /\ toastTimers[u] # <<>>
  /\ toasts' = [toasts EXCEPT ![u] = RemoveToast(@, Head(toastTimers[u]))]
  /\ toastTimers' = [toastTimers EXCEPT ![u] = Tail(@)]
  /\ UNCHANGED <<dbVars, viewVars, toastSeq, localStorage, sessionVars, procs, inbox, ops, history,
                 faults>>

(***************************************************************************)
(* Change events: one event per changed row to every subscribed component  *)
(***************************************************************************)
\* the five channels of the subscriptions effect, by the table and filter they
\* listen to
Channels == {"member_connections_user", "media_page_follows_user", "profiles_changes",
             "member_connections_changes", "connection_requests_changes"}

EventsFor(v, table, rows) ==
  CASE table = "member_connections" ->
         {[channel |-> "member_connections_changes", member_id |-> r.member_id,
           connected_user_id |-> r.connected_user_id] : r \in rows}
         \cup {[channel |-> "member_connections_user"] :
                  r \in {x \in rows : x.member_id = v}}
    [] table = "media_page_follows" ->
         {[channel |-> "media_page_follows_user"] :
            r \in {x \in rows : x.follower_id = v}}
    [] table = "connection_requests" ->
         {[channel |-> "connection_requests_changes",
           recipient_id |-> r.recipient_id, status |-> r.status] : r \in rows}
    [] table = "profiles" ->
         {[channel |-> "profiles_changes", id |-> r.id, followers |-> r.followers] :
            r \in rows}

Notify(table, rows) ==
  inbox' = [v \in Members |->
              inbox[v] \cup {ev \in EventsFor(v, table, rows) :
                                ev.channel \in subscriptions[v]}]

(***************************************************************************)
(* Mounting, timers                                                        *)
(***************************************************************************)
\* useEffect(..., [user]) and useEffect(..., [user?.id]) on the first render
Mount(u) ==
  /\ ~mounted[u]
  /\ mounted' = [mounted EXCEPT ![u] = TRUE]
  /\ subscriptions' = [subscriptions EXCEPT ![u] = Channels]
  /\ ProcStart(u, {NewLoadCreators, NewLoadMembers, NewLoadConnections,
                    NewLoadMessages})
  /\ UNCHANGED <<dbVars, viewVars, toastVars, localStorage, inbox, ops, history, faults>>

Unsubscribe_keepProfiles(subs) == subs \ (Channels \ {"profiles_changes"})
\* the cleanup of the subscriptions effect: unsubscribe() on each of the five
Unsubscribe(subs) == subs \ Channels

\* the cleanup runs: the events of the released channels are no longer delivered
Cleanup(u) ==
  /\ mounted[u]
  /\ mounted' = [mounted EXCEPT ![u] = FALSE]
  /\ subscriptions' = [subscriptions EXCEPT ![u] = Unsubscribe(@)]
  /\ inbox' = [inbox EXCEPT ![u] = {ev \in @ : ev.channel \in Unsubscribe(subscriptions[u])}]

Unmount_cancelTimers(u) ==
  /\ Cleanup(u)
  /\ procs' = [procs EXCEPT ![u] = BagDelete(@, {p \in BagRows(@) : p.kind = "timer"})]
  /\ UNCHANGED <<dbVars, viewVars, toastVars, localStorage, ops, history, faults>>

\* the view is torn down, or user becomes null and the effect returns at
\* `if (!user?.id) return`
Unmount(u) ==
  /\ Cleanup(u)
  /\ UNCHANGED <<dbVars, viewVars, toastVars, localStorage, procs, ops, history, faults>>

\* user?.id changes from u to v while the component stays mounted and no call
\* is in flight: the cleanup for u runs, then both effects run for v; the
\* component keeps its state and the browser its cache
IdentityChange(u, v) ==
  /\ u # v /\ mounted[u] /\ ~mounted[v]
  /\ procs[u] = EmptyBag /\ procs[v] = EmptyBag
  /\ mounted' = [mounted EXCEPT ![u] = FALSE, ![v] = TRUE]
  /\ subscriptions' = [subscriptions EXCEPT ![u] = Unsubscribe(@), ![v] = Channels]
  /\ inbox' = [inbox EXCEPT
                 ![u] = {ev \in @ : ev.channel \in Unsubscribe(subscriptions[u])},
                 ![v] = {}]
  /\ ProcStart(v, {NewLoadCreators, NewLoadMembers, NewLoadConnections, NewLoadMessages})
  /\ creators' = [creators EXCEPT ![v] = creators[u]]
  /\ members' = [members EXCEPT ![v] = members[u]]
  /\ connections' = [connections EXCEPT ![v] = connections[u]]
  /\ messages' = [messages EXCEPT ![v] = messages[u]]
  /\ creatorsLoaded' = [creatorsLoaded EXCEPT ![v] = creatorsLoaded[u]]
  /\ membersLoaded' = [membersLoaded EXCEPT ![v] = membersLoaded[u]]
  /\ selectedConnection' = [selectedConnection EXCEPT ![v] = selectedConnection[u]]
  /\ messageInput' = [messageInput EXCEPT ![v] = messageInput[u]]
  /\ pendingRequests' = [pendingRequests EXCEPT ![v] = pendingRequests[u]]
  /\ toasts' = [toasts EXCEPT ![v] = toasts[u], ![u] = <<>>]
  /\ toastSeq' = [toastSeq EXCEPT ![v] = toastSeq[u]]
  /\ toastTimers' = [toastTimers EXCEPT ![v] = toastTimers[u], ![u] = <<>>]
  /\ localStorage' = [localStorage EXCEPT ![v] = localStorage[u]]
  /\ UNCHANGED <<dbVars, ops, history, faults>>

\* another user's action changes the follower count of a profile
UpdateProfile ==
  \E id \in Ids : \E f \in FollowerCounts :
    /\ ops < MaxOps
    /\ profiles[id].followers # f
    /\ ops' = ops + 1
    /\ profiles' = [profiles EXCEPT ![id].followers = f]
    /\ Notify("profiles", {[id |-> id, followers |-> f]})
    /\ UNCHANGED <<member_connections, media_page_follows, connection_requests,
                   messagesTable, viewVars, toastVars, localStorage, sessionVars, procs,
                   history, faults>>

WithFollowers_all(list, updatedProfile) ==
  [i \in 1..Len(list) |-> [list[i] EXCEPT !.followers = updatedProfile.followers]]
\* { ...entry, followers: updatedProfile.followers } for the entry of the profile
WithFollowers(list, updatedProfile) ==
  [i \in 1..Len(list) |->
     IF list[i].id = updatedProfile.id
     THEN [list[i] EXCEPT !.followers = updatedProfile.followers]
     ELSE list[i]]

\* the callback of profilesSubscription
OnProfilesChange(u) ==
  \E ev \in inbox[u] :
    /\ ev.channel = "profiles_changes"
    /\ ev.channel \in subscriptions[u]
    /\ inbox' = [inbox EXCEPT ![u] = @ \ {ev}]
    /\ creators' = [creators EXCEPT ![u] = WithFollowers(@, ev)]
    /\ members' = [members EXCEPT ![u] = WithFollowers(@, ev)]
    /\ localStorage' = [localStorage EXCEPT
                          ![u] = [creators |-> Some(WithFollowers(creators[u], ev)),
                                  members |-> Some(WithFollowers(members[u], ev))]]
    /\ UNCHANGED <<dbVars, connections, messages, creatorsLoaded, membersLoaded,
                   selectedConnection, messageInput, pendingRequests, toastVars,
                   sessionVars, procs, ops, history, faults>>

\* a setTimeout(() => loadX(), delay) set by a handler fires
TimerFire(u) ==
  \E p \in ProcsOf(u, "timer") :
    /\ procs' = [procs EXCEPT ![u] = StartCalls(BagRemoveOne(@, p), {NewPass(p.fn)})]
    /\ UNCHANGED <<dbVars, viewVars, toastVars, localStorage, sessionVars, inbox, ops, history,
                   faults>>

(***************************************************************************)
(* loadCreators                                                            *)
(***************************************************************************)
\* list.find((c) => c.id === id)
FindById(list, id) ==
  IF \E i \in 1..Len(list) : list[i].id = id
  THEN Some(list[CHOOSE i \in 1..Len(list) :
                   list[i].id = id /\ \A j \in 1..(i - 1) : list[j].id # id])
  ELSE None

\* const { data, error } = await supabase.from('profiles')...
loadCreators_profiles(u) ==
  \E p \in ProcsOf(u, "loadCreators") : \E ok \in Outcomes :
    /\ p.pc = "profiles"
    /\ IF ok
       THEN ProcReplace(u, p, [p EXCEPT !.pc = "memberConnections",
                                        !.data = Some(QueryCreatorProfiles)])
       ELSE ProcRemove(u, p)
    /\ Call(ok)
    /\ UNCHANGED <<dbVars, viewVars, toastVars, localStorage, sessionVars, inbox, ops, history>>

\* const { data: memberConnectionsData } = await supabase.from('member_connections')...
loadCreators_memberConnections(u) ==
  \E p \in ProcsOf(u, "loadCreators") : \E ok \in Outcomes :
    /\ p.pc = "memberConnections"
    /\ ProcReplace(u, p, [p EXCEPT !.pc = "mediaFollows",
           !.memberConnectionsData =
              IF ok THEN Some(QueryFollowedViaConnection(u)) ELSE None])
    /\ Call(ok)
    /\ UNCHANGED <<dbVars, viewVars, toastVars, localStorage, sessionVars, inbox, ops, history>>

\* const { data: mediaFollowsData } = await supabase.from('media_page_follows')...
loadCreators_mediaFollows(u) ==
  \E p \in ProcsOf(u, "loadCreators") : \E ok \in Outcomes :
    /\ p.pc = "mediaFollows"
    /\ ProcReplace(u, p, [p EXCEPT !.pc = "setCreators",
           !.mediaFollowsData = IF ok THEN Some(QueryFollowedViaMedia(u)) ELSE None])
    /\ Call(ok)
    /\ UNCHANGED <<dbVars, viewVars, toastVars, localStorage, sessionVars, inbox, ops, history>>

CreatorFollowed_idOnly(creator, followedViaConnectionIds, followedViaMediaNames) ==
  creator.id \in followedViaConnectionIds

CreatorFollowed_both(creator, followedViaConnectionIds, followedViaMediaNames) ==
  creator.id \in followedViaConnectionIds /\ creator.name \in followedViaMediaNames

\* followed: followedViaConnectionIds.has(creator.id) || followedViaMediaNames.has(creator.name)
CreatorFollowed(creator, followedViaConnectionIds, followedViaMediaNames) ==
  creator.id \in followedViaConnectionIds \/ creator.name \in followedViaMediaNames

creatorsWithFollowStatus(p) ==
  LET followedViaConnectionIds ==
        IF p.memberConnectionsData = None THEN {} ELSE p.memberConnectionsData[1]
      followedViaMediaNames ==
        IF p.mediaFollowsData = None THEN {} ELSE p.mediaFollowsData[1]
      data == p.data[1]
  IN [i \in 1..Len(data) |->
       [id |-> data[i].id, name |-> data[i].name, followers |-> data[i].followers,
        followed |-> CreatorFollowed(data[i], followedViaConnectionIds,
                                     followedViaMediaNames)]]

\* setCreators(...); setCachedCreators(...); setCreatorsLoaded(true)
loadCreators_setCreators(u) ==
  \E p \in ProcsOf(u, "loadCreators") :
    /\ p.pc = "setCreators"
    /\ IF PassWrites(p)
       THEN /\ creators' = [creators EXCEPT ![u] = creatorsWithFollowStatus(p)]
            /\ localStorage' =
                 [localStorage EXCEPT ![u].creators = Some(creatorsWithFollowStatus(p))]
            /\ creatorsLoaded' = [creatorsLoaded EXCEPT ![u] = TRUE]
       ELSE UNCHANGED <<creators, localStorage, creatorsLoaded>>
    /\ PassCommits(u, p)
    /\ UNCHANGED <<dbVars, members, connections, messages, membersLoaded,
                   selectedConnection, messageInput, pendingRequests, toastVars,
                   sessionVars, inbox, ops, faults>>

\* the callbacks of memberConnectionsSubscription and mediaFollowsSubscription
OnFollowChange(u) ==
  \E ev \in inbox[u] :
    /\ ev.channel \in {"member_connections_user", "media_page_follows_user"}
    /\ ev.channel \in subscriptions[u]
    /\ inbox' = [inbox EXCEPT ![u] = @ \ {ev}]
    /\ ProcStart(u, {NewLoadCreators})
    /\ UNCHANGED <<dbVars, viewVars, toastVars, localStorage, sessionVars, ops, history, faults>>

(***************************************************************************)
(* handleFollowCreator                                                     *)
(***************************************************************************)
\* handleFollowCreator(creator) for a creator of the rendered list, up to the
\* insert into member_connections
handleFollowCreator_insertConnection(u) ==
  \E i \in 1..Len(creators[u]) : \E ok \in Outcomes :
    LET creator == creators[u][i]
        row == MCRow(u, creator.id, "follow")
    IN /\ mounted[u] /\ ops < MaxOps
       /\ ops' = ops + 1
       /\ member_connections' = IF ok THEN BagAdd(member_connections, row)
                                 ELSE member_connections
       /\ Notify("member_connections", IF ok THEN {row} ELSE {})
       /\ ProcAdd(u, [kind |-> "handleFollowCreator", pc |-> "insertMedia",
                      creator |-> creator, creators |-> creators[u],
                      connectionError |-> ~ok, mediaError |-> FALSE])
       /\ Call(ok)
       /\ UNCHANGED <<profiles, media_page_follows, connection_requests, messagesTable,
                      viewVars, toastVars, localStorage, sessionVars, history>>

\* the insert into media_page_follows
handleFollowCreator_insertMedia(u) ==
  \E p \in ProcsOf(u, "handleFollowCreator") : \E ok \in Outcomes :
    LET row == MediaRow(u, p.creator.name)
    IN /\ p.pc = "insertMedia"
       /\ media_page_follows' = IF ok THEN BagAdd(media_page_follows, row)
                                 ELSE media_page_follows
       /\ Notify("media_page_follows", IF ok THEN {row} ELSE {})
       /\ ProcReplace(u, p, [p EXCEPT !.pc = "finish", !.mediaError = ~ok])
       /\ Call(ok)
       /\ UNCHANGED <<profiles, member_connections, connection_requests, messagesTable,
                      viewVars, toastVars, localStorage, sessionVars, ops, history>>

\* creators.map((c) => c.id === creator.id ? { ...c, followed: true } : c)
SetFollowed(list, id, flag) ==
  [i \in 1..Len(list) |->
     IF list[i].id = id THEN [list[i] EXCEPT !.followed = flag] ELSE list[i]]

FollowSucceeded_either(p) == ~p.connectionError \/ ~p.mediaError
\* if (!connectionError && !mediaError)
FollowSucceeded(p) == ~p.connectionError /\ ~p.mediaError

\* if (!connectionError && !mediaError) { setCreators; addToast; setTimeout } else addToast
handleFollowCreator_finish(u) ==
  \E p \in ProcsOf(u, "handleFollowCreator") :
    /\ p.pc = "finish"
    /\ history' = Append(history, [user |-> u, op |-> "followCreator", id |-> p.creator.id,
                                  ok |-> FollowSucceeded(p),
                                  clean |-> ~p.connectionError /\ ~p.mediaError])
    /\ IF FollowSucceeded(p)
       THEN /\ creators' = [creators EXCEPT ![u] =
                               SetFollowed(p.creators, p.creator.id, TRUE)]
            /\ addToast(u, "Now following", "success")
            /\ ProcReplace(u, p, NewTimer("loadCreators"))
       ELSE /\ addToast(u, "Failed to follow creator", "error")
            /\ ProcRemove(u, p)
            /\ UNCHANGED creators
    /\ UNCHANGED <<dbVars, members, connections, messages, creatorsLoaded,
                   membersLoaded, selectedConnection, messageInput, pendingRequests,
                   localStorage, sessionVars, inbox, ops, faults>>

(***************************************************************************)
(* handleUnfollowCreator                                                   *)
(***************************************************************************)
\* handleUnfollowCreator(creatorId): the lookup of the creator in the rendered
\* list and the delete from member_connections
handleUnfollowCreator_deleteConnection(u) ==
  \E creatorId \in Creators : \E ok \in Outcomes :
    LET creatorToUnfollow == FindById(creators[u], creatorId)
        deleted == {r \in BagRows(member_connections) :
                      r.member_id = u /\ r.connected_user_id = creatorId}
    IN /\ mounted[u] /\ ops < MaxOps
       /\ ops' = ops + 1
       /\ IF creatorToUnfollow = None
          THEN /\ addToast(u, "Creator not found", "error")
               /\ history' = Append(history, [user |-> u, op |-> "unfollowCreator",
                                             id |-> creatorId, ok |-> FALSE,
                                             clean |-> TRUE])
               /\ UNCHANGED <<member_connections, inbox, procs, faults>>
          ELSE /\ Call(ok)
               /\ member_connections' =
                    IF ok THEN BagDelete(member_connections, deleted)
                    ELSE member_connections
               /\ Notify("member_connections", IF ok THEN deleted ELSE {})
               /\ ProcAdd(u, [kind |-> "handleUnfollowCreator", pc |-> "deleteMedia",
                              creatorId |-> creatorId,
                              creatorToUnfollow |-> creatorToUnfollow[1],
                              creators |-> creators[u],
                              connectionError |-> ~ok, mediaError |-> FALSE])
               /\ UNCHANGED <<toastVars, history>>
       /\ UNCHANGED <<profiles, media_page_follows, connection_requests, messagesTable,
                      viewVars, localStorage, sessionVars>>

\* .eq('creator_name', creatorToUnfollow.name)
UnfollowMediaKey_byId(p) == p.creatorId
UnfollowMediaKey(p) == p.creatorToUnfollow.name

\* the delete from media_page_follows, keyed by the creator's name
handleUnfollowCreator_deleteMedia(u) ==
  \E p \in ProcsOf(u, "handleUnfollowCreator") : \E ok \in Outcomes :
    LET deleted == {r \in BagRows(media_page_follows) :
                      r.follower_id = u /\ r.creator_name = UnfollowMediaKey(p)}
    IN /\ p.pc = "deleteMedia"
       /\ media_page_follows' =
            IF ok THEN BagDelete(media_page_follows, deleted)
            ELSE media_page_follows
       /\ Notify("media_page_follows", IF ok THEN deleted ELSE {})
       /\ ProcReplace(u, p, [p EXCEPT !.pc = "finish", !.mediaError = ~ok])
       /\ Call(ok)
       /\ UNCHANGED <<profiles, member_connections, connection_requests, messagesTable,
                      viewVars, toastVars, localStorage, sessionVars, ops, history>>

UnfollowSucceeded_either(p) == ~p.connectionError \/ ~p.mediaError
\* if (!connectionError && !mediaError)
UnfollowSucceeded(p) == ~p.connectionError /\ ~p.mediaError

handleUnfollowCreator_finish(u) ==
  \E p \in ProcsOf(u, "handleUnfollowCreator") :
    /\ p.pc = "finish"
    /\ history' = Append(history, [user |-> u, op |-> "unfollowCreator", id |-> p.creatorId,
                                  ok |-> UnfollowSucceeded(p),
                                  clean |-> ~p.connectionError /\ ~p.mediaError])
    /\ IF UnfollowSucceeded(p)
       THEN /\ creators' = [creators EXCEPT ![u] =
                               SetFollowed(p.creators, p.creatorId, FALSE)]
            /\ addToast(u, "Unfollowed creator", "success")
            /\ ProcReplace(u, p, NewTimer("loadCreators"))
       ELSE /\ addToast(u, "Failed to unfollow creator", "error")
            /\ ProcRemove(u, p)
            /\ UNCHANGED creators
    /\ UNCHANGED <<dbVars, members, connections, messages, creatorsLoaded,
                   membersLoaded, selectedConnection, messageInput, pendingRequests,
                   localStorage, sessionVars, inbox, ops, faults>>

(***************************************************************************)
(* loadMembers                                                             *)
(***************************************************************************)
\* from('profiles')...eq('account_type','member').neq('id', u).limit(50)
QueryMemberProfiles(u) ==
  LET NotMe(id) == id # u
      ids == SelectSeq(MemberOrder, NotMe)
  IN [i \in 1..Len(ids) |-> [id |-> ids[i], name |-> profiles[ids[i]].name]]

ColleagueRows ==
  {r \in BagRows(member_connections) : r.connection_type = "colleague"}
\* select('connected_user_id').eq('member_id', u).eq('connection_type','colleague')
QueryOutgoingConnections(u) ==
  {r.connected_user_id : r \in {x \in ColleagueRows : x.member_id = u}}
\* select('member_id').eq('connected_user_id', u).eq('connection_type','colleague')
QueryIncomingConnections(u) ==
  {r.member_id : r \in {x \in ColleagueRows : x.connected_user_id = u}}
\* select('member_id, connected_user_id').eq('connection_type','colleague')
QueryAllConnections ==
  BagDelete(member_connections, BagRows(member_connections) \ ColleagueRows)
\* from('connection_requests').select('recipient_id').eq('sender_id', u).eq('status','pending')
QuerySentRequests(u) ==
  {connection_requests[i].recipient_id :
     i \in {j \in 1..Len(connection_requests) :
              /\ connection_requests[j].sender_id = u
              /\ connection_requests[j].status = "pending"}}

loadMembers_profiles(u) ==
  \E p \in ProcsOf(u, "loadMembers") : \E ok \in Outcomes :
    /\ p.pc = "profiles"
    /\ IF ok
       THEN ProcReplace(u, p, [p EXCEPT !.pc = "outgoingConnections",
                                        !.data = Some(QueryMemberProfiles(u))])
       ELSE ProcRemove(u, p)
    /\ Call(ok)
    /\ UNCHANGED <<dbVars, viewVars, toastVars, localStorage, sessionVars, inbox, ops, history>>

loadMembers_outgoingConnections(u) ==
  \E p \in ProcsOf(u, "loadMembers") : \E ok \in Outcomes :
    /\ p.pc = "outgoingConnections"
    /\ ProcReplace(u, p, [p EXCEPT !.pc = "incomingConnections",
           !.outgoingConnections =
              IF ok THEN Some(QueryOutgoingConnections(u)) ELSE None])
    /\ Call(ok)
    /\ UNCHANGED <<dbVars, viewVars, toastVars, localStorage, sessionVars, inbox, ops, history>>

loadMembers_incomingConnections(u) ==
  \E p \in ProcsOf(u, "loadMembers") : \E ok \in Outcomes :
    /\ p.pc = "incomingConnections"
    /\ ProcReplace(u, p, [p EXCEPT !.pc = "allConnectionsData",
           !.incomingConnections =
              IF ok THEN Some(QueryIncomingConnections(u)) ELSE None])
    /\ Call(ok)
    /\ UNCHANGED <<dbVars, viewVars, toastVars, localStorage, sessionVars, inbox, ops, history>>

loadMembers_allConnectionsData(u) ==
  \E p \in ProcsOf(u, "loadMembers") : \E ok \in Outcomes :
    /\ p.pc = "allConnectionsData"
    /\ ProcReplace(u, p, [p EXCEPT !.pc = "sentRequests",
           !.allConnectionsData = IF ok THEN Some(QueryAllConnections) ELSE None])
    /\ Call(ok)
    /\ UNCHANGED <<dbVars, viewVars, toastVars, localStorage, sessionVars, inbox, ops, history>>

loadMembers_sentRequests(u) ==
  \E p \in ProcsOf(u, "loadMembers") : \E ok \in Outcomes :
    /\ p.pc = "sentRequests"
    /\ ProcReplace(u, p, [p EXCEPT !.pc = "setMembers",
           !.sentRequests = IF ok THEN Some(QuerySentRequests(u)) ELSE None])
    /\ Call(ok)
    /\ UNCHANGED <<dbVars, viewVars, toastVars, localStorage, sessionVars, inbox, ops, history>>

\* allConnectionsData.forEach: one more for conn.connected_user_id and one more
\* for conn.member_id, for every row
RECURSIVE CountEndpoints(_, _, _)
CountEndpoints(all, rows, id) ==
  IF rows = {} THEN 0
  ELSE LET conn == CHOOSE x \in rows : TRUE
       IN all[conn] * ((IF conn.connected_user_id = id THEN 1 ELSE 0)
                       + (IF conn.member_id = id THEN 1 ELSE 0))
          + CountEndpoints(all, rows \ {conn}, id)

connectionCounts_target(p, id) ==
  IF p.allConnectionsData = None THEN 0
  ELSE CountEndpoints(p.allConnectionsData[1],
                      {r \in BagRows(p.allConnectionsData[1]) : r.member_id # id}, id)
connectionCounts(p, id) ==
  IF p.allConnectionsData = None THEN 0
  ELSE CountEndpoints(p.allConnectionsData[1], BagRows(p.allConnectionsData[1]), id)

connectedWithIds_outgoing(p) ==
  IF p.outgoingConnections = None THEN {} ELSE p.outgoingConnections[1]
\* new Set([...outgoing.map(c => c.connected_user_id), ...incoming.map(c => c.member_id)])
connectedWithIds(p) ==
  (IF p.outgoingConnections = None THEN {} ELSE p.outgoingConnections[1])
  \cup (IF p.incomingConnections = None THEN {} ELSE p.incomingConnections[1])

pendingRequestsMap(p) == IF p.sentRequests = None THEN {} ELSE p.sentRequests[1]

membersWithConnectionStatus(p) ==
  LET data == p.data[1]
  IN [i \in 1..Len(data) |->
       [id |-> data[i].id, name |-> data[i].name,
        followers |-> connectionCounts(p, data[i].id),
        connected |-> data[i].id \in connectedWithIds(p),
        requestStatus |->
          IF data[i].id \in pendingRequestsMap(p) THEN "pending" ELSE "none"]]

membersForCache(p) ==
  LET data == p.data[1]
  IN [i \in 1..Len(data) |->
       [id |-> data[i].id, name |-> data[i].name, connected |-> FALSE]]

\* setPendingRequests; setMembers; setCachedMembers; setMembersLoaded(true)
loadMembers_setMembers(u) ==
  \E p \in ProcsOf(u, "loadMembers") :
    /\ p.pc = "setMembers"
    /\ IF PassWrites(p)
       THEN /\ pendingRequests' = [pendingRequests EXCEPT ![u] = pendingRequestsMap(p)]
            /\ members' = [members EXCEPT ![u] = membersWithConnectionStatus(p)]
            /\ localStorage' = [localStorage EXCEPT ![u].members = Some(membersForCache(p))]
            /\ membersLoaded' = [membersLoaded EXCEPT ![u] = TRUE]
       ELSE UNCHANGED <<pendingRequests, members, localStorage, membersLoaded>>
    /\ PassCommits(u, p)
    /\ UNCHANGED <<dbVars, creators, connections, messages, creatorsLoaded,
                   selectedConnection, messageInput, toastVars, sessionVars, inbox, ops,
                   faults>>

InvolvesUser_member(ev, u) == ev.member_id = u
\* changedMemberId === user?.id || changedConnectedId === user?.id
InvolvesUser(ev, u) == ev.member_id = u \/ ev.connected_user_id = u

\* the callback of memberConnectionsStatusSubscription
OnMemberConnectionsChange(u) ==
  \E ev \in inbox[u] :
    /\ ev.channel = "member_connections_changes"
    /\ ev.channel \in subscriptions[u]
    /\ inbox' = [inbox EXCEPT ![u] = @ \ {ev}]
    /\ localStorage' = [localStorage EXCEPT ![u].members = None]
    /\ ProcStart(u, IF InvolvesUser(ev, u)
                    THEN {NewLoadMembers, NewLoadConnections}
                    ELSE {NewLoadMembers})
    /\ UNCHANGED <<dbVars, viewVars, toastVars, sessionVars, ops, history, faults>>

NotifiesRecipient_anyStatus(ev, u) == ev.recipient_id = u
\* recipientId === user?.id && payload.new?.status === 'pending'
NotifiesRecipient(ev, u) == ev.recipient_id = u /\ ev.status = "pending"

\* the callback of connectionRequestsSubscription
OnConnectionRequestsChange(u) ==
  \E ev \in inbox[u] :
    /\ ev.channel = "connection_requests_changes"
    /\ ev.channel \in subscriptions[u]
    /\ inbox' = [inbox EXCEPT ![u] = @ \ {ev}]
    /\ localStorage' = [localStorage EXCEPT ![u].members = None]
    /\ ProcStart(u, {NewLoadMembers})
    /\ IF NotifiesRecipient(ev, u)
       THEN addToast(u, "You have a new connection request", "success")
       ELSE UNCHANGED toastVars
    /\ UNCHANGED <<dbVars, viewVars, sessionVars, ops, history, faults>>

(***************************************************************************)
(* handleConnectMember                                                     *)
(***************************************************************************)
\* handleConnectMember(member) for a member of the rendered list, up to the
\* insert into connection_requests
handleConnectMember_insert(u) ==
  \E i \in 1..Len(members[u]) : \E ok \in Outcomes :
    LET member == members[u][i]
        row == [sender_id |-> u, recipient_id |-> member.id, status |-> "pending"]
    IN /\ mounted[u] /\ ops < MaxOps
       /\ ops' = ops + 1
       /\ connection_requests' = IF ok THEN Append(connection_requests, row)
                                  ELSE connection_requests
       /\ Notify("connection_requests", IF ok THEN {row} ELSE {})
       /\ ProcAdd(u, [kind |-> "handleConnectMember", pc |-> "finish",
                      member |-> member, members |-> members[u],
                      pendingRequests |-> pendingRequests[u], error |-> ~ok])
       /\ Call(ok)
       /\ UNCHANGED <<profiles, member_connections, media_page_follows, messagesTable,
                      viewVars, toastVars, localStorage, sessionVars, history>>

SetRequestPending_connected(list, id) ==
  [i \in 1..Len(list) |->
     IF list[i].id = id
     THEN [list[i] EXCEPT !.requestStatus = "pending", !.connected = TRUE]
     ELSE list[i]]
\* members.map((m) => m.id === member.id ? { ...m, requestStatus: 'pending' } : m)
SetRequestPending(list, id) ==
  [i \in 1..Len(list) |->
     IF list[i].id = id THEN [list[i] EXCEPT !.requestStatus = "pending"] ELSE list[i]]

handleConnectMember_finish(u) ==
  \E p \in ProcsOf(u, "handleConnectMember") :
    /\ p.pc = "finish"
    /\ history' = Append(history, [user |-> u, op |-> "connectMember",
                                  id |-> p.member.id, ok |-> ~p.error,
                                  clean |-> ~p.error])
    /\ IF ~p.error
       THEN /\ members' = [members EXCEPT ![u] = SetRequestPending(p.members, p.member.id)]
            /\ pendingRequests' =
                 [pendingRequests EXCEPT ![u] = p.pendingRequests \cup {p.member.id}]
            /\ addToast(u, "Connection request sent", "success")
       ELSE /\ addToast(u, "Failed to send connection request", "error")
            /\ UNCHANGED <<members, pendingRequests>>
    /\ ProcRemove(u, p)
    /\ UNCHANGED <<dbVars, creators, connections, messages, creatorsLoaded,
                   membersLoaded, selectedConnection, messageInput, localStorage,
                   sessionVars, inbox, ops, faults>>

(***************************************************************************)
(* handleAcceptConnectionRequest / handleDeclineConnectionRequest          *)
(***************************************************************************)
QueryPendingRequests_anyStatus(memberId, u) ==
  {i \in 1..Len(connection_requests) :
     /\ connection_requests[i].sender_id = memberId
     /\ connection_requests[i].recipient_id = u}
\* select('id').eq('sender_id', memberId).eq('recipient_id', u).eq('status','pending')
QueryPendingRequests(memberId, u) ==
  {i \in 1..Len(connection_requests) :
     /\ connection_requests[i].sender_id = memberId
     /\ connection_requests[i].recipient_id = u
     /\ connection_requests[i].status = "pending"}

UpdateRequestStatus_none(id, status) == connection_requests
\* update({ status }).eq('id', id)
UpdateRequestStatus(id, status) ==
  [connection_requests EXCEPT ![id].status = status]

\* handleXConnectionRequest(memberId), up to the lookup of the pending request;
\* requests[0] is any of the rows found (the query gives no order)
RequestLookup(u, kind, op) ==
  \E i \in 1..Len(members[u]) : \E ok \in Outcomes :
    LET memberId == members[u][i].id
        requests == QueryPendingRequests(memberId, u)
    IN /\ mounted[u] /\ ops < MaxOps
       /\ ops' = ops + 1
       /\ IF ok /\ requests # {}
          THEN /\ \E id \in requests :
                    ProcAdd(u, [kind |-> kind, pc |-> "update", memberId |-> memberId,
                                requestId |-> id, error |-> FALSE])
               /\ UNCHANGED history
          ELSE /\ history' = Append(history, [user |-> u, op |-> op, id |-> memberId,
                                              ok |-> FALSE, clean |-> ok])
               /\ UNCHANGED procs
       /\ Call(ok)
       /\ UNCHANGED <<dbVars, viewVars, toastVars, localStorage, sessionVars, inbox>>

handleAcceptConnectionRequest_lookup(u) ==
  RequestLookup(u, "handleAcceptConnectionRequest", "acceptRequest")

\* update({ status: 'accepted' }).eq('id', requests[0].id)
handleAcceptConnectionRequest_update(u) ==
  \E p \in ProcsOf(u, "handleAcceptConnectionRequest") : \E ok \in Outcomes :
    /\ p.pc = "update"
    /\ IF ok
       THEN /\ connection_requests' = UpdateRequestStatus(p.requestId, "accepted")
            /\ Notify("connection_requests",
                      {[connection_requests[p.requestId] EXCEPT !.status = "accepted"]})
            /\ ProcReplace(u, p, [p EXCEPT !.pc = "insert"])
            /\ UNCHANGED history
       ELSE /\ history' = Append(history, [user |-> u, op |-> "acceptRequest",
                                           id |-> p.memberId, ok |-> FALSE,
                                           clean |-> FALSE])
            /\ ProcRemove(u, p)
            /\ UNCHANGED <<connection_requests, inbox>>
    /\ Call(ok)
    /\ UNCHANGED <<profiles, member_connections, media_page_follows, messagesTable,
                   viewVars, toastVars, localStorage, sessionVars, ops>>

AcceptedEdge_follow(u, memberId) == MCRow(memberId, u, "follow")
\* the colleague edge of an accepted request: member_id = sender, connected_user_id = user
AcceptedEdge(u, memberId) == MCRow(memberId, u, "colleague")

\* insert into member_connections
handleAcceptConnectionRequest_insert(u) ==
  \E p \in ProcsOf(u, "handleAcceptConnectionRequest") : \E ok \in Outcomes :
    LET row == AcceptedEdge(u, p.memberId)
    IN /\ p.pc = "insert"
       /\ member_connections' = IF ok THEN BagAdd(member_connections, row)
                                 ELSE member_connections
       /\ Notify("member_connections", IF ok THEN {row} ELSE {})
       /\ ProcReplace(u, p, [p EXCEPT !.pc = "finish", !.error = ~ok])
       /\ Call(ok)
       /\ UNCHANGED <<profiles, media_page_follows, connection_requests, messagesTable,
                      viewVars, toastVars, localStorage, sessionVars, ops, history>>

\* if (!connectionError) { removeItem; addToast; setTimeout(() => loadMembers(), 500) }
handleAcceptConnectionRequest_finish(u) ==
  \E p \in ProcsOf(u, "handleAcceptConnectionRequest") :
    /\ p.pc = "finish"
    /\ history' = Append(history, [user |-> u, op |-> "acceptRequest",
                                  id |-> p.memberId, ok |-> ~p.error,
                                  clean |-> ~p.error])
    /\ IF ~p.error
       THEN /\ localStorage' = [localStorage EXCEPT ![u].members = None]
            /\ addToast(u, "Connection accepted", "success")
            /\ ProcReplace(u, p, NewTimer("loadMembers"))
       ELSE /\ ProcRemove(u, p)
            /\ UNCHANGED <<localStorage, toastVars>>
    /\ UNCHANGED <<dbVars, viewVars, sessionVars, inbox, ops, faults>>

handleDeclineConnectionRequest_lookup(u) ==
  RequestLookup(u, "handleDeclineConnectionRequest", "declineRequest")

\* update({ status: 'rejected' }).eq('id', requests[0].id)
handleDeclineConnectionRequest_update(u) ==
  \E p \in ProcsOf(u, "handleDeclineConnectionRequest") : \E ok \in Outcomes :
    /\ p.pc = "update"
    /\ connection_requests' = IF ok THEN UpdateRequestStatus(p.requestId, "rejected")
                               ELSE connection_requests
    /\ Notify("connection_requests",
              IF ok THEN {[connection_requests[p.requestId] EXCEPT !.status = "rejected"]}
              ELSE {})
    /\ ProcReplace(u, p, [p EXCEPT !.pc = "finish", !.error = ~ok])
    /\ Call(ok)
    /\ UNCHANGED <<profiles, member_connections, media_page_follows, messagesTable,
                   viewVars, toastVars, localStorage, sessionVars, ops, history>>

\* if (!updateError) { addToast; setTimeout(() => loadMembers(), 500) }
handleDeclineConnectionRequest_finish(u) ==
  \E p \in ProcsOf(u, "handleDeclineConnectionRequest") :
    /\ p.pc = "finish"
    /\ history' = Append(history, [user |-> u, op |-> "declineRequest",
                                  id |-> p.memberId, ok |-> ~p.error,
                                  clean |-> ~p.error])
    /\ IF ~p.error
       THEN /\ addToast(u, "Connection request declined", "success")
            /\ ProcReplace(u, p, NewTimer("loadMembers"))
       ELSE /\ ProcRemove(u, p)
            /\ UNCHANGED toastVars
    /\ UNCHANGED <<dbVars, viewVars, localStorage, sessionVars, inbox, ops, faults>>

(***************************************************************************)
(* handleDisconnectMember                                                  *)
(***************************************************************************)
\* delete().eq('member_id', from).eq('connected_user_id', to).eq('connection_type','colleague')
ColleagueEdges(from, to) ==
  {r \in BagRows(member_connections) :
     r.member_id = from /\ r.connected_user_id = to /\ r.connection_type = "colleague"}

\* handleDisconnectMember(memberId), up to the delete of the edges user -> member
handleDisconnectMember_deleteOutgoing(u) ==
  \E i \in 1..Len(members[u]) : \E ok \in Outcomes :
    LET memberId == members[u][i].id
        deleted == ColleagueEdges(u, memberId)
    IN /\ mounted[u] /\ ops < MaxOps
       /\ ops' = ops + 1
       /\ member_connections' = IF ok THEN BagDelete(member_connections, deleted)
                                 ELSE member_connections
       /\ Notify("member_connections", IF ok THEN deleted ELSE {})
       /\ ProcAdd(u, [kind |-> "handleDisconnectMember", pc |-> "deleteIncoming",
                      memberId |-> memberId, members |-> members[u],
                      error1 |-> ~ok, error2 |-> FALSE])
       /\ Call(ok)
       /\ UNCHANGED <<profiles, media_page_follows, connection_requests, messagesTable,
                      viewVars, toastVars, localStorage, sessionVars, history>>

IncomingEdges_outgoing(u, memberId) == ColleagueEdges(u, memberId)
\* .eq('member_id', memberId).eq('connected_user_id', user?.id)
IncomingEdges(u, memberId) == ColleagueEdges(memberId, u)

\* the delete of the edges member -> user
handleDisconnectMember_deleteIncoming(u) ==
  \E p \in ProcsOf(u, "handleDisconnectMember") : \E ok \in OutcomesAfter(p.error1) :
    LET deleted == IncomingEdges(u, p.memberId)
    IN /\ p.pc = "deleteIncoming"
       /\ member_connections' = IF ok THEN BagDelete(member_connections, deleted)
                                 ELSE member_connections
       /\ Notify("member_connections", IF ok THEN deleted ELSE {})
       /\ ProcReplace(u, p, [p EXCEPT !.pc = "finish", !.error2 = ~ok])
       /\ Call(ok)
       /\ UNCHANGED <<profiles, media_page_follows, connection_requests, messagesTable,
                      viewVars, toastVars, localStorage, sessionVars, ops, history>>

\* members.map((m) => m.id === memberId ? { ...m, connected: false } : m)
SetDisconnected(list, id) ==
  [i \in 1..Len(list) |->
     IF list[i].id = id THEN [list[i] EXCEPT !.connected = FALSE] ELSE list[i]]

DisconnectSucceeded_both(p) == ~p.error1 /\ ~p.error2
\* if (!error1 || !error2)
DisconnectSucceeded(p) == ~p.error1 \/ ~p.error2

handleDisconnectMember_finish(u) ==
  \E p \in ProcsOf(u, "handleDisconnectMember") :
    /\ p.pc = "finish"
    /\ history' = Append(history, [user |-> u, op |-> "disconnectMember",
                                  id |-> p.memberId, ok |-> DisconnectSucceeded(p),
                                  clean |-> ~p.error1 /\ ~p.error2])
    /\ IF DisconnectSucceeded(p)
       THEN /\ localStorage' = [localStorage EXCEPT ![u].members = None]
            /\ members' = [members EXCEPT ![u] = SetDisconnected(p.members, p.memberId)]
            /\ addToast(u, "Disconnected", "success")
            /\ ProcReplace(u, p, NewTimer("loadMembers"))
       ELSE /\ addToast(u, "Failed to disconnect", "error")
            /\ ProcRemove(u, p)
            /\ UNCHANGED <<members, localStorage>>
    /\ UNCHANGED <<dbVars, creators, connections, messages, creatorsLoaded,
                   membersLoaded, selectedConnection, messageInput, pendingRequests,
                   sessionVars, inbox, ops, faults>>

(***************************************************************************)
(* loadConnections, loadMessages                                           *)
(***************************************************************************)
IdOrder == MemberOrder \o CreatorOrder
\* the joined profiles of a set of ids, in the order the rows are returned
ProfilesOf(ids) ==
  LET Wanted(id) == id \in ids
      found == SelectSeq(IdOrder, Wanted)
  IN [i \in 1..Len(found) |-> [id |-> found[i], name |-> profiles[found[i]].name]]

loadConnections_outgoing(u) ==
  \E p \in ProcsOf(u, "loadConnections") : \E ok \in Outcomes :
    /\ p.pc = "outgoing"
    /\ ProcReplace(u, p, [p EXCEPT !.pc = "incoming",
           !.outgoingData =
              IF ok THEN Some(ProfilesOf(QueryOutgoingConnections(u))) ELSE None])
    /\ Call(ok)
    /\ UNCHANGED <<dbVars, viewVars, toastVars, localStorage, sessionVars, inbox, ops, history>>

loadConnections_incoming(u) ==
  \E p \in ProcsOf(u, "loadConnections") : \E ok \in Outcomes :
    /\ p.pc = "incoming"
    /\ ProcReplace(u, p, [p EXCEPT !.pc = "setConnections",
           !.incomingData =
              IF ok THEN Some(ProfilesOf(QueryIncomingConnections(u))) ELSE None])
    /\ Call(ok)
    /\ UNCHANGED <<dbVars, viewVars, toastVars, localStorage, sessionVars, inbox, ops, history>>

\* the two forEach loops: the outgoing profiles, then the incoming profiles whose
\* id is not in connectionIds yet
connectionsList(p) ==
  LET outgoing == IF p.outgoingData = None THEN <<>> ELSE p.outgoingData[1]
      incoming == IF p.incomingData = None THEN <<>> ELSE p.incomingData[1]
      connectionIds == {outgoing[i].id : i \in 1..Len(outgoing)}
      NotYet(c) == c.id \notin connectionIds
  IN outgoing \o SelectSeq(incoming, NotYet)

loadConnections_setConnections(u) ==
  \E p \in ProcsOf(u, "loadConnections") :
    /\ p.pc = "setConnections"
    /\ connections' = [connections EXCEPT ![u] = connectionsList(p)]
    /\ ProcRemove(u, p)
    /\ UNCHANGED <<dbVars, creators, members, messages, creatorsLoaded, membersLoaded,
                   selectedConnection, messageInput, pendingRequests, toastVars,
                   localStorage, sessionVars, inbox, ops, history, faults>>

\* from('messages')...eq('recipient_id', u).order('timestamp', { ascending: false })
QueryMessages(u) ==
  LET ToMe(i) == messagesTable[i].recipient_id = u
      n == Len(messagesTable)
      newestFirst == [i \in 1..n |-> n + 1 - i]
      mine == SelectSeq(newestFirst, ToMe)
  IN [i \in 1..Len(mine) |->
        [id |-> mine[i], sender_id |-> messagesTable[mine[i]].sender_id,
         content |-> messagesTable[mine[i]].content]]

loadMessages_messages(u) ==
  \E p \in ProcsOf(u, "loadMessages") : \E ok \in Outcomes :
    /\ p.pc = "messages"
    /\ ProcReplace(u, p, [p EXCEPT !.pc = "setMessages",
                                   !.data = IF ok THEN Some(QueryMessages(u)) ELSE None])
    /\ Call(ok)
    /\ UNCHANGED <<dbVars, viewVars, toastVars, localStorage, sessionVars, inbox, ops, history>>

\* if (!error && data) setMessages(messagesList)
loadMessages_setMessages(u) ==
  \E p \in ProcsOf(u, "loadMessages") :
    /\ p.pc = "setMessages"
    /\ messages' = [messages EXCEPT ![u] = IF p.data # None THEN p.data[1] ELSE @]
    /\ ProcRemove(u, p)
    /\ UNCHANGED <<dbVars, creators, members, connections, creatorsLoaded, membersLoaded,
                   selectedConnection, messageInput, pendingRequests, toastVars,
                   localStorage, sessionVars, inbox, ops, history, faults>>

(***************************************************************************)
(* Messaging                                                               *)
(***************************************************************************)
\* onClick of a connection card: setSelectedConnection(connection)
SelectConnection(u) ==
  \E i \in 1..Len(connections[u]) :
    /\ mounted[u]
    /\ selectedConnection[u] # Some(connections[u][i])
    /\ selectedConnection' = [selectedConnection EXCEPT ![u] = Some(connections[u][i])]
    /\ UNCHANGED <<dbVars, creators, members, connections, messages, creatorsLoaded,
                   membersLoaded, messageInput, pendingRequests, toastVars,
                   localStorage, sessionVars, procs, inbox, ops, history, faults>>

\* the texts the input can hold: strings of blanks and letters of bounded length
Chars == {" ", "a"}
Drafts == UNION {[1..n -> Chars] : n \in 0..MaxDraft}

\* onChange of the input, which is rendered when a connection is selected
TypeMessage(u) ==
  \E value \in Drafts :
    /\ mounted[u] /\ selectedConnection[u] # None
    /\ value # messageInput[u]
    /\ messageInput' = [messageInput EXCEPT ![u] = value]
    /\ UNCHANGED <<dbVars, creators, members, connections, messages, creatorsLoaded,
                   membersLoaded, selectedConnection, pendingRequests, toastVars,
                   localStorage, sessionVars, procs, inbox, ops, history, faults>>

\* String.prototype.trim: the text without its leading and trailing blanks
RECURSIVE TrimStart(_)
TrimStart(str) ==
  IF str # <<>> /\ Head(str) = " " THEN TrimStart(Tail(str)) ELSE str
RECURSIVE TrimEnd(_)
TrimEnd(str) ==
  IF str # <<>> /\ str[Len(str)] = " " THEN TrimEnd(SubSeq(str, 1, Len(str) - 1))
  ELSE str
trim(str) == TrimEnd(TrimStart(str))

SendRejected_empty(u) == selectedConnection[u] = None \/ messageInput[u] = <<>>
\* if (!selectedConnection || !messageInput.trim()) return
SendRejected(u) == selectedConnection[u] = None \/ trim(messageInput[u]) = <<>>

\* handleSendMessage(), up to the insert into messages
NewMessage_toSelf(u) ==
  [sender_id |-> selectedConnection[u][1].id, recipient_id |-> u,
   content |-> messageInput[u], read |-> FALSE]
\* { sender_id: user?.id, recipient_id: selectedConnection.id, content: messageInput,
\*   timestamp, read: false }
NewMessage(u) ==
  [sender_id |-> u, recipient_id |-> selectedConnection[u][1].id,
   content |-> messageInput[u], read |-> FALSE]

handleSendMessage_insert(u) ==
  \E ok \in Outcomes :
    /\ mounted[u] /\ ops < MaxOps
    /\ ops' = ops + 1
    /\ IF SendRejected(u)
       THEN /\ history' = Append(history, [user |-> u, op |-> "sendMessage",
                                          id |-> "none", ok |-> FALSE, clean |-> TRUE])
            /\ UNCHANGED <<messagesTable, procs, faults>>
       ELSE /\ Call(ok)
            /\ messagesTable' =
                 IF ok
                 THEN Append(messagesTable, NewMessage(u))
                 ELSE messagesTable
            /\ ProcAdd(u, [kind |-> "handleSendMessage", pc |-> "finish",
                           recipient |-> selectedConnection[u][1].id, error |-> ~ok])
            /\ UNCHANGED history
    /\ UNCHANGED <<profiles, member_connections, media_page_follows, connection_requests,
                   viewVars, toastVars, localStorage, sessionVars, inbox>>

\* if (!error) { setMessageInput(''); loadMessages(); addToast('Message sent') }
handleSendMessage_finish(u) ==
  \E p \in ProcsOf(u, "handleSendMessage") :
    /\ p.pc = "finish"
    /\ history' = Append(history, [user |-> u, op |-> "sendMessage", id |-> p.recipient,
                                  ok |-> ~p.error, clean |-> ~p.error])
    /\ IF ~p.error
       THEN /\ messageInput' = [messageInput EXCEPT ![u] = <<>>]
            /\ ProcReplace(u, p, NewLoadMessages)
            /\ addToast(u, "Message sent", "success")
       ELSE /\ ProcRemove(u, p)
            /\ UNCHANGED <<messageInput, toastVars>>
    /\ UNCHANGED <<dbVars, creators, members, connections, messages, creatorsLoaded,
                   membersLoaded, selectedConnection, pendingRequests, localStorage,
                   sessionVars, inbox, ops, faults>>

(***************************************************************************)
(* Initial states and specifications                                       *)
(***************************************************************************)
\* getCachedCreators() || [] etc.: the state of a freshly constructed component
InitView ==
  /\ localStorage = [u \in Members |-> [creators |-> None, members |-> None]]
  /\ creators = [u \in Members |-> <<>>]
  /\ members = [u \in Members |-> <<>>]
  /\ connections = [u \in Members |-> <<>>]
  /\ messages = [u \in Members |-> <<>>]
  /\ creatorsLoaded = [u \in Members |-> FALSE]
  /\ membersLoaded = [u \in Members |-> FALSE]
  /\ selectedConnection = [u \in Members |-> None]
  /\ messageInput = [u \in Members |-> <<>>]
  /\ toasts = [u \in Members |-> <<>>]
  /\ pendingRequests = [u \in Members |-> {}]
  /\ mounted = [u \in Members |-> FALSE]
  /\ subscriptions = [u \in Members |-> {}]
  /\ procs = [u \in Members |-> EmptyBag]
  /\ inbox = [u \in Members |-> {}]
  /\ toastSeq = [u \in Members |-> 0]
  /\ toastTimers = [u \in Members |-> <<>>]
  /\ ops = 0
  /\ faults = 0
  /\ history = <<>>

ProfileRows(names) ==
  [id \in Ids |->
     [name |-> IF id \in Creators THEN names[id] ELSE id,
      account_type |-> IF id \in Creators THEN "creator" ELSE "member",
      followers |-> 0]]

\* The creators part: user A on the creators tab.  The store starts with any
\* creator names and with any follows user A made earlier on the Media page.
InitCreators ==
  /\ InitView
  /\ \E names \in {[X |-> "n1", Y |-> "n2"], [X |-> "n1", Y |-> "n1"]} :
       profiles = ProfileRows(names)
  /\ member_connections = EmptyBag
  /\ \E S \in {{}, {MediaRow("A", "n1")}} : media_page_follows = SetToBag(S)
  /\ connection_requests = <<>>
  /\ messagesTable = <<>>

NextCreators ==
  \E u \in {"A"} :
    \/ Mount(u)
    \/ PassesBelow(u, "loadCreators", MaxPasses) /\ TimerFire(u)
    \/ PassesBelow(u, "loadCreators", MaxPasses) /\ OnFollowChange(u)
    \/ loadCreators_profiles(u)
    \/ loadCreators_memberConnections(u)
    \/ loadCreators_mediaFollows(u)
    \/ loadCreators_setCreators(u)
    \/ handleFollowCreator_insertConnection(u)
    \/ handleFollowCreator_insertMedia(u)
    \/ handleFollowCreator_finish(u)
    \/ handleUnfollowCreator_deleteConnection(u)
    \/ handleUnfollowCreator_deleteMedia(u)
    \/ handleUnfollowCreator_finish(u)

SpecCreators == InitCreators /\ [][NextCreators]_vars

\* The same component when the user and the network take turns: a click, an
\* event callback or a timer callback starts only when no call that touches the
\* creators is in flight.
CreatorsIdle(u) ==
  \A p \in BagRows(procs[u]) :
    p.kind \notin {"loadCreators", "handleFollowCreator", "handleUnfollowCreator"}

NextCreatorsSeq ==
  \E u \in {"A"} :
    \/ Mount(u)
    \/ CreatorsIdle(u) /\ PassesBelow(u, "loadCreators", MaxPasses) /\ TimerFire(u)
    \/ CreatorsIdle(u) /\ PassesBelow(u, "loadCreators", MaxPasses) /\ OnFollowChange(u)
    \/ loadCreators_profiles(u)
    \/ loadCreators_memberConnections(u)
    \/ loadCreators_mediaFollows(u)
    \/ loadCreators_setCreators(u)
    \/ CreatorsIdle(u) /\ handleFollowCreator_insertConnection(u)
    \/ handleFollowCreator_insertMedia(u)
    \/ handleFollowCreator_finish(u)
    \/ CreatorsIdle(u) /\ handleUnfollowCreator_deleteConnection(u)
    \/ handleUnfollowCreator_deleteMedia(u)
    \/ handleUnfollowCreator_finish(u)

SpecCreatorsSeq == InitCreators /\ [][NextCreatorsSeq]_vars

\* The members part: user A on the members tab, while the store holds colleague
\* edges left by earlier sessions (a pair can hold edges in both directions, or
\* the same edge twice) and possibly a request that B sent to A.
Viewers == {"A", "B"}
DefaultNames == [X |-> "n1", Y |-> "n2"]
InitMembers ==
  /\ InitView
  /\ profiles = ProfileRows(DefaultNames)
  /\ \E seed \in {EmptyBag,
                  SetToBag({MCRow("C", "A", "colleague"), MCRow("B", "C", "colleague")}),
                  SetToBag({MCRow("A", "B", "colleague"), MCRow("B", "A", "colleague"),
                            MCRow("A", "X", "follow")}),
                  SetToBag({MCRow("A", "C", "colleague")})
                    (+) SetToBag({MCRow("A", "C", "colleague")})} :
       member_connections = seed
  /\ media_page_follows = EmptyBag
  /\ \E reqs \in {<<>>, <<[sender_id |-> "B", recipient_id |-> "A",
                           status |-> "pending"]>>} :
       connection_requests = reqs
  /\ messagesTable = <<>>

MembersStep(u) ==
  \/ loadMembers_profiles(u)
  \/ loadMembers_outgoingConnections(u)
  \/ loadMembers_incomingConnections(u)
  \/ loadMembers_allConnectionsData(u)
  \/ loadMembers_sentRequests(u)
  \/ loadMembers_setMembers(u)
  \/ handleConnectMember_finish(u)
  \/ handleAcceptConnectionRequest_update(u)
  \/ handleAcceptConnectionRequest_insert(u)
  \/ handleAcceptConnectionRequest_finish(u)
  \/ handleDeclineConnectionRequest_update(u)
  \/ handleDeclineConnectionRequest_finish(u)
  \/ handleDisconnectMember_deleteIncoming(u)
  \/ handleDisconnectMember_finish(u)

NextMembers ==
  \E u \in {"A"} :
    \/ Mount(u)
    \/ PassesBelow(u, "loadMembers", MaxPasses) /\ TimerFire(u)
    \/ PassesBelow(u, "loadMembers", MaxPasses) /\ OnMemberConnectionsChange(u)
    \/ PassesBelow(u, "loadMembers", MaxPasses) /\ OnConnectionRequestsChange(u)
    \/ handleConnectMember_insert(u)
    \/ handleAcceptConnectionRequest_lookup(u)
    \/ handleDeclineConnectionRequest_lookup(u)
    \/ handleDisconnectMember_deleteOutgoing(u)
    \/ MembersStep(u)

SpecMembers == InitMembers /\ [][NextMembers]_vars

\* The same when the users and the network take turns: a click, an event
\* callback or a timer callback starts only when no call that touches the
\* members is in flight in any session.
MembersIdle ==
  \A v \in Members : \A p \in BagRows(procs[v]) :
    p.kind \notin {"loadMembers", "handleConnectMember", "handleAcceptConnectionRequest",
                   "handleDeclineConnectionRequest", "handleDisconnectMember"}

MembersTurns(users) ==
  \E u \in users :
    \/ MembersIdle /\ Mount(u)
    \/ MembersIdle /\ PassesBelow(u, "loadMembers", MaxPasses) /\ TimerFire(u)
    \/ MembersIdle /\ PassesBelow(u, "loadMembers", MaxPasses)
       /\ OnMemberConnectionsChange(u)
    \/ MembersIdle /\ PassesBelow(u, "loadMembers", MaxPasses)
       /\ OnConnectionRequestsChange(u)
    \/ MembersIdle /\ handleConnectMember_insert(u)
    \/ MembersIdle /\ handleAcceptConnectionRequest_lookup(u)
    \/ MembersIdle /\ handleDeclineConnectionRequest_lookup(u)
    \/ MembersIdle /\ handleDisconnectMember_deleteOutgoing(u)
    \/ MembersStep(u)

\* no request and no colleague edge between A and B at the start
InitMembersFresh ==
  /\ InitView
  /\ profiles = ProfileRows(DefaultNames)
  /\ \E seed \in {EmptyBag,
                  SetToBag({MCRow("C", "A", "colleague"), MCRow("B", "C", "colleague")})
                    (+) SetToBag({MCRow("B", "C", "colleague")})} :
       member_connections = seed
  /\ media_page_follows = EmptyBag
  /\ connection_requests = <<>>
  /\ messagesTable = <<>>

NextMembersSeq == MembersTurns(Viewers)
SpecMembersSeq == InitMembersFresh /\ [][NextMembersSeq]_vars

\* user A alone, one call at a time, over a store that already holds colleague
\* edges
NextMembersSolo == MembersTurns({"A"})
SpecMembersSeeded == InitMembers /\ [][NextMembersSolo]_vars

\* The messaging part: user A with the connections list, the message input and
\* the send button.
InitMessages ==
  /\ InitView
  /\ profiles = ProfileRows(DefaultNames)
  /\ \E seed \in {SetToBag({MCRow("A", "B", "colleague"), MCRow("B", "A", "colleague"),
                            MCRow("C", "A", "colleague")}),
                  EmptyBag} :
       member_connections = seed
  /\ media_page_follows = EmptyBag
  /\ connection_requests = <<>>
  /\ \E sent \in {<<>>, <<[sender_id |-> "B", recipient_id |-> "A",
                           content |-> <<"a">>, read |-> FALSE]>>} :
       messagesTable = sent

NextMessages ==
  \E u \in {"A"} :
    \/ Mount(u)
    \/ loadConnections_outgoing(u)
    \/ loadConnections_incoming(u)
    \/ loadConnections_setConnections(u)
    \/ loadMessages_messages(u)
    \/ loadMessages_setMessages(u)
    \/ SelectConnection(u)
    \/ TypeMessage(u)
    \/ handleSendMessage_insert(u)
    \/ handleSendMessage_finish(u)

SpecMessages == InitMessages /\ [][NextMessages]_vars

\* The session: a fresh browser in which a user opens the page, the identity
\* may change while the page stays open, and the page is closed.  Requests are
\* sent and other users change profiles, so that change events arrive before
\* and after the subscriptions are released.
InitSession ==
  /\ InitView
  /\ profiles = ProfileRows(DefaultNames)
  /\ \E seed \in {EmptyBag,
                  SetToBag({MCRow("A", "B", "colleague"), MCRow("B", "A", "colleague")})} :
       member_connections = seed
  /\ media_page_follows = EmptyBag
  /\ connection_requests = <<>>
  /\ messagesTable = <<>>

NeverMounted ==
  \A w \in Members :
    ~mounted[w] /\ procs[w] = EmptyBag /\ ~creatorsLoaded[w] /\ ~membersLoaded[w]

\* the calls of this part answer in the order of CallOrder: a call takes a
\* step only when no call of an earlier kind is in flight in any session
CallOrder == <<"loadCreators", "loadMembers", "loadConnections", "loadMessages",
               "handleConnectMember">>
Turn(n) ==
  \A w \in Members : \A p \in BagRows(procs[w]) :
    \A k \in 1..(n - 1) : p.kind # CallOrder[k]

NextSession ==
  \/ UpdateProfile
  \/ \E u \in Viewers :
       \/ NeverMounted /\ Mount(u)
       \/ Unmount(u)
       \/ \E v \in Viewers : IdentityChange(u, v)
       \/ PassesBelow(u, "loadMembers", MaxPasses) /\ OnConnectionRequestsChange(u)
       \/ OnProfilesChange(u)
       \/ Turn(1) /\ loadCreators_profiles(u)
       \/ Turn(1) /\ loadCreators_memberConnections(u)
       \/ Turn(1) /\ loadCreators_mediaFollows(u)
       \/ Turn(1) /\ loadCreators_setCreators(u)
       \/ Turn(2) /\ loadMembers_profiles(u)
       \/ Turn(2) /\ loadMembers_outgoingConnections(u)
       \/ Turn(2) /\ loadMembers_incomingConnections(u)
       \/ Turn(2) /\ loadMembers_allConnectionsData(u)
       \/ Turn(2) /\ loadMembers_sentRequests(u)
       \/ Turn(2) /\ loadMembers_setMembers(u)
       \/ Turn(3) /\ loadConnections_outgoing(u)
       \/ Turn(3) /\ loadConnections_incoming(u)
       \/ Turn(3) /\ loadConnections_setConnections(u)
       \/ Turn(4) /\ loadMessages_messages(u)
       \/ Turn(4) /\ loadMessages_setMessages(u)
       \/ Turn(5) /\ handleConnectMember_insert(u)
       \/ Turn(5) /\ handleConnectMember_finish(u)

SpecSession == InitSession /\ [][NextSession]_vars

\* Unfollowing on a store that other users and other pages have written: B
\* follows X as well, A and B are colleagues, B has sent A a request, and A
\* holds a colleague edge to the creator X (the Connection type has the role
\* 'creator' for such a profile).
InitUnfollow ==
  /\ InitView
  /\ profiles = ProfileRows(DefaultNames)
  /\ member_connections
       = SetToBag({MCRow("A", "X", "colleague"), MCRow("B", "X", "follow"),
                   MCRow("A", "B", "colleague"), MCRow("B", "A", "colleague")})
  /\ \E S \in {{}, {MediaRow("B", "n1")}} : media_page_follows = SetToBag(S)
  /\ connection_requests = <<[sender_id |-> "B", recipient_id |-> "A", status |-> "pending"]>>
  /\ messagesTable = <<>>

SpecUnfollow == InitUnfollow /\ [][NextCreatorsSeq]_vars

\* Members and connections together: user A accepts and disconnects; the
\* change events start loadMembers and loadConnections, whose calls interleave.
\* A click, an event callback or a timer callback starts only when none of
\* these calls is in flight.
ConnectionsIdle == MembersIdle /\ \A v \in Members : ProcsOf(v, "loadConnections") = {}

NextConnections ==
  \E u \in {"A"} :
    \/ ConnectionsIdle /\ Mount(u)
    \/ ConnectionsIdle /\ TimerFire(u)
    \/ ConnectionsIdle /\ OnMemberConnectionsChange(u)
    \/ ConnectionsIdle /\ OnConnectionRequestsChange(u)
    \/ ConnectionsIdle /\ handleAcceptConnectionRequest_lookup(u)
    \/ ConnectionsIdle /\ handleDisconnectMember_deleteOutgoing(u)
    \/ loadMembers_profiles(u)
    \/ loadMembers_outgoingConnections(u)
    \/ loadMembers_incomingConnections(u)
    \/ loadMembers_allConnectionsData(u)
    \/ loadMembers_sentRequests(u)
    \/ loadMembers_setMembers(u)
    \/ loadConnections_outgoing(u)
    \/ loadConnections_incoming(u)
    \/ loadConnections_setConnections(u)
    \/ handleAcceptConnectionRequest_update(u)
    \/ handleAcceptConnectionRequest_insert(u)
    \/ handleAcceptConnectionRequest_finish(u)
    \/ handleDisconnectMember_deleteIncoming(u)
    \/ handleDisconnectMember_finish(u)

SpecConnections == InitMembers /\ [][NextConnections]_vars

\* Delayed reloads: user A, connected with C and holding a request of B,
\* follows, unfollows, accepts, declines or disconnects; the page is closed
\* while a reload set by one of these calls is waiting to fire.  No change
\* event is delivered, so the timers are the only source of reloads.
InitReload ==
  /\ InitView
  /\ profiles = ProfileRows(DefaultNames)
  /\ member_connections
       = SetToBag({MCRow("A", "C", "colleague"), MCRow("C", "A", "colleague")})
  /\ media_page_follows = EmptyBag
  /\ connection_requests = <<[sender_id |-> "B", recipient_id |-> "A", status |-> "pending"]>>
  /\ messagesTable = <<>>

TimerPending(u) == ProcsOf(u, "timer") # {}

NextReload ==
  \E u \in {"A"} :
    \/ NeverMounted /\ Mount(u)
    \/ TimerPending(u) /\ Unmount(u)
    \/ PassesBelow(u, "loadCreators", MaxPasses) /\ PassesBelow(u, "loadMembers", MaxPasses)
       /\ TimerFire(u)
    \/ loadCreators_profiles(u)
    \/ loadCreators_memberConnections(u)
    \/ loadCreators_mediaFollows(u)
    \/ loadCreators_setCreators(u)
    \/ handleFollowCreator_insertConnection(u)
    \/ handleFollowCreator_insertMedia(u)
    \/ handleFollowCreator_finish(u)
    \/ handleUnfollowCreator_deleteConnection(u)
    \/ handleUnfollowCreator_deleteMedia(u)
    \/ handleUnfollowCreator_finish(u)
    \/ handleAcceptConnectionRequest_lookup(u)
    \/ handleDeclineConnectionRequest_lookup(u)
    \/ handleDisconnectMember_deleteOutgoing(u)
    \/ loadMembers_profiles(u)
    \/ loadMembers_outgoingConnections(u)
    \/ loadMembers_incomingConnections(u)
    \/ loadMembers_allConnectionsData(u)
    \/ loadMembers_sentRequests(u)
    \/ loadMembers_setMembers(u)
    \/ handleAcceptConnectionRequest_update(u)
    \/ handleAcceptConnectionRequest_insert(u)
    \/ handleAcceptConnectionRequest_finish(u)
    \/ handleDeclineConnectionRequest_update(u)
    \/ handleDeclineConnectionRequest_finish(u)
    \/ handleDisconnectMember_deleteIncoming(u)
    \/ handleDisconnectMember_finish(u)

SpecReload == InitReload /\ [][NextReload]_vars

\* Overlapping passes: user A on a fresh store sends requests while up to
\* MaxOverlap passes of loadMembers are in flight.
InitOverlap ==
  /\ InitView
  /\ profiles = ProfileRows(DefaultNames)
  /\ member_connections = EmptyBag
  /\ media_page_follows = EmptyBag
  /\ connection_requests = <<>>
  /\ messagesTable = <<>>

\* the steps the user starts
OverlapClicks(u) ==
  \/ Mount(u)
  \/ handleConnectMember_insert(u)

\* the steps the gateway, the change stream and the timers take
OverlapSteps(u) ==
  \/ PassesBelow(u, "loadMembers", MaxOverlap) /\ OnConnectionRequestsChange(u)
  \/ loadMembers_profiles(u)
  \/ loadMembers_outgoingConnections(u)
  \/ loadMembers_incomingConnections(u)
  \/ loadMembers_allConnectionsData(u)
  \/ loadMembers_sentRequests(u)
  \/ loadMembers_setMembers(u)
  \/ handleConnectMember_finish(u)

NextOverlap == OverlapClicks("A") \/ OverlapSteps("A")
SpecOverlap == InitOverlap /\ [][NextOverlap]_vars
\* every call that was started gets its answer, every event is delivered and
\* every timer fires
SpecOverlapFair == SpecOverlap /\ WF_vars(OverlapSteps("A"))

\* The Notification Dispatcher alone: toasts are added and their timers fire;
\* a timer that was set fires after its delay (weak fairness).
ToastMessages == {"Connection accepted", "Disconnected", "Failed to disconnect"}
addToastCall(u) ==
  \E message \in ToastMessages : \E type \in {"success", "error"} :
    /\ toastSeq[u] < MaxToasts
    /\ addToast(u, message, type)
    /\ UNCHANGED <<dbVars, viewVars, localStorage, sessionVars, procs, inbox, ops, history,
                   faults>>

InitToasts ==
  /\ InitView
  /\ profiles = ProfileRows(DefaultNames)
  /\ member_connections = EmptyBag
  /\ media_page_follows = EmptyBag
  /\ connection_requests = <<>>
  /\ messagesTable = <<>>

NextToasts == \E u \in {"A"} : addToastCall(u) \/ ToastTimeout(u)

SpecToasts == InitToasts /\ [][NextToasts]_vars /\ WF_vars(ToastTimeout("A"))

(***************************************************************************)
(* Properties                                                              *)
(***************************************************************************)
FollowEdgeExists(u, c) ==
  \E r \in BagRows(member_connections) :
    r.member_id = u /\ r.connected_user_id = c /\ r.connection_type = "follow"
LegacyFollowExists(u, n) ==
  \E r \in BagRows(media_page_follows) : r.follower_id = u /\ r.creator_name = n
\* the call p of user u takes a step and becomes q / returns
Stepped(u, p, q) == procs'[u] = BagAdd(BagRemoveOne(procs[u], p), q)
Returned(u, p) == procs'[u] = BagRemoveOne(procs[u], p)
EndsWith(h, a, b) == Len(h) >= 2 /\ h[Len(h) - 1] = a /\ h[Len(h)] = b
HandlerKinds ==
  {"handleFollowCreator", "handleUnfollowCreator", "handleConnectMember",
   "handleAcceptConnectionRequest", "handleDeclineConnectionRequest",
   "handleDisconnectMember", "handleSendMessage"}
NoHandlerInFlight(u) == \A p \in BagRows(procs[u]) : p.kind \notin HandlerKinds
FollowEvents(u) ==
  {ev \in inbox[u] :
     ev.channel \in {"member_connections_user", "media_page_follows_user"}}
\* nothing that touches the creators list is in flight, pending or scheduled
CreatorsQuiescent(u) ==
  CreatorsIdle(u) /\ FollowEvents(u) = {}
  /\ \A p \in ProcsOf(u, "timer") : p.fn # "loadCreators"

\* C1: in a loadCreators pass whose reads all succeed, the two follow reads
\* return exactly the creators for which a follow edge (u -> id) of
\* member_connections, resp. a media_page_follows row (u, name), exists when the
\* read is made, and the pass sets followed = TRUE for exactly the creators of
\* the profile rows whose id is in the first result or whose name is in the second.
C1_FollowedIffEitherEdge ==
  [][\A u \in Members : \A p \in ProcsOf(u, "loadCreators") :
       /\ p.pc = "memberConnections" =>
            \A q \in BagRows(procs'[u]) :
              (q.kind = "loadCreators" /\ Stepped(u, p, q)
                 /\ q.memberConnectionsData # None)
              => q.memberConnectionsData[1] = {c \in Ids : FollowEdgeExists(u, c)}
       /\ p.pc = "mediaFollows" =>
            \A q \in BagRows(procs'[u]) :
              (q.kind = "loadCreators" /\ Stepped(u, p, q) /\ q.mediaFollowsData # None)
              => q.mediaFollowsData[1] = {n \in Names : LegacyFollowExists(u, n)}
       /\ (p.pc = "setCreators" /\ Returned(u, p) /\ p.memberConnectionsData # None
             /\ p.mediaFollowsData # None)
          => /\ Len(creators'[u]) = Len(p.data[1])
             /\ \A i \in 1..Len(p.data[1]) :
                  /\ creators'[u][i].id = p.data[1][i].id
                  /\ creators'[u][i].followed <=>
                       (p.data[1][i].id \in p.memberConnectionsData[1]
                        \/ p.data[1][i].name \in p.mediaFollowsData[1])
    ]_vars

\* a loaded list in which one creator is followed through media_page_follows
\* alone and another creator is not followed
C1_Witness ==
  /\ creatorsLoaded["A"] /\ CreatorsQuiescent("A")
  /\ \E i, j \in 1..Len(creators["A"]) :
       /\ creators["A"][i].followed /\ ~creators["A"][j].followed
       /\ ~FollowEdgeExists("A", creators["A"][i].id)
       /\ LegacyFollowExists("A", creators["A"][i].name)

\* C7: when the last two handlers that returned are a successful followCreator(c)
\* and then a successful unfollowCreator(c) of the same user, then (as long as
\* that user starts nothing new) c.followed is false in the user's list, after
\* the handler and after every later reload, and neither a follow edge
\* (user -> c) nor a media_page_follows row (user, c.name) exists.
C7_FollowThenUnfollow ==
  \A u \in Members : \A c \in Creators :
    (/\ EndsWith(history, [user |-> u, op |-> "followCreator", id |-> c, ok |-> TRUE, clean |-> TRUE],
                 [user |-> u, op |-> "unfollowCreator", id |-> c, ok |-> TRUE, clean |-> TRUE])
     /\ NoHandlerInFlight(u))
    => /\ ~FollowEdgeExists(u, c)
       /\ ~LegacyFollowExists(u, profiles[c].name)
       /\ \A i \in 1..Len(creators[u]) : creators[u][i].id = c => ~creators[u][i].followed

\* follow then unfollow returned, the delayed reload has run and written the list
C7_Witness ==
  \E c \in Creators :
    /\ EndsWith(history,
                [user |-> "A", op |-> "followCreator", id |-> c, ok |-> TRUE, clean |-> TRUE],
                [user |-> "A", op |-> "unfollowCreator", id |-> c, ok |-> TRUE, clean |-> TRUE])
    /\ CreatorsQuiescent("A")
    /\ localStorage["A"].creators # None
    /\ \E i \in 1..Len(creators["A"]) : creators["A"][i].id = c

(***************************************************************************)
(* Properties of the members part                                          *)
(***************************************************************************)
ColleagueEdgeExists(from, to) ==
  \E r \in BagRows(member_connections) :
    r.member_id = from /\ r.connected_user_id = to /\ r.connection_type = "colleague"
\* number of colleague edges between a and b, in either direction
EdgeCount(a, b) ==
  CopiesIn(MCRow(a, b, "colleague"), member_connections)
  + CopiesIn(MCRow(b, a, "colleague"), member_connections)
RECURSIVE SumCopies(_, _)
SumCopies(B, rows) ==
  IF rows = {} THEN 0
  ELSE LET r == CHOOSE x \in rows : TRUE IN CopiesIn(r, B) + SumCopies(B, rows \ {r})
\* occurrences of m as the source plus occurrences of m as the target in the bag B
EndpointCount(B, m) ==
  SumCopies(B, {r \in BagRows(B) : r.member_id = m})
  + SumCopies(B, {r \in BagRows(B) : r.connected_user_id = m})
\* the handler op(id) of user u returned after succeeding in every gateway call
Ev(u, op, id) == [user |-> u, op |-> op, id |-> id, ok |-> TRUE, clean |-> TRUE]
AllHandlersDone == \A v \in Members : NoHandlerInFlight(v)
\* the loadMembers call p of user u, whose secondary reads all succeeded, writes
\* its result in this step
MembersCommit(u, p) ==
  /\ p.kind = "loadMembers" /\ p.pc = "setMembers" /\ Returned(u, p)
  /\ p.outgoingConnections # None /\ p.incomingConnections # None
  /\ p.allConnectionsData # None /\ p.sentRequests # None
\* the entry of member m in a list has / does not have the given flags
Shows(list, m, connected, requestStatus) ==
  \E i \in 1..Len(list) :
    /\ list[i].id = m /\ list[i].connected = connected
    /\ list[i].requestStatus = requestStatus
MembersQuiescent ==
  /\ MembersIdle
  /\ \A v \in Members :
       /\ \A p \in ProcsOf(v, "timer") : p.fn # "loadMembers"
       /\ \A ev \in inbox[v] :
            ev.channel \notin {"member_connections_changes", "connection_requests_changes"}

\* C2: in a loadMembers pass whose reads all succeed, the outgoing read returns
\* exactly the members m with a colleague edge (u -> m) and the incoming read
\* exactly the members m with a colleague edge (m -> u), as the store holds them
\* when the read is made, and the pass sets connected = TRUE for exactly the
\* members that are in one of the two results.
C2_ConnectedIffEitherDirection ==
  [][\A u \in Members : \A p \in ProcsOf(u, "loadMembers") :
       /\ p.pc = "outgoingConnections" =>
            \A q \in BagRows(procs'[u]) :
              (q.kind = "loadMembers" /\ Stepped(u, p, q) /\ q.outgoingConnections # None)
              => q.outgoingConnections[1] = {m \in Ids : ColleagueEdgeExists(u, m)}
       /\ p.pc = "incomingConnections" =>
            \A q \in BagRows(procs'[u]) :
              (q.kind = "loadMembers" /\ Stepped(u, p, q) /\ q.incomingConnections # None)
              => q.incomingConnections[1] = {m \in Ids : ColleagueEdgeExists(m, u)}
       /\ MembersCommit(u, p)
          => /\ Len(members'[u]) = Len(p.data[1])
             /\ \A i \in 1..Len(p.data[1]) :
                  /\ members'[u][i].id = p.data[1][i].id
                  /\ members'[u][i].connected <=>
                       (p.data[1][i].id \in p.outgoingConnections[1]
                        \/ p.data[1][i].id \in p.incomingConnections[1])
    ]_vars

\* a loaded list in which one member is connected through an edge that points to
\* the viewer only, and another member is not connected
C2_Witness ==
  /\ membersLoaded["A"] /\ MembersQuiescent
  /\ \E i, j \in 1..Len(members["A"]) :
       /\ members["A"][i].connected /\ ~members["A"][j].connected
       /\ ~ColleagueEdgeExists("A", members["A"][i].id)
       /\ ColleagueEdgeExists(members["A"][i].id, "A")
       /\ EdgeCount("A", members["A"][j].id) = 0

\* C3: in a loadMembers pass whose reads all succeed, the read of all colleague
\* edges returns every colleague edge of the store, whoever its endpoints are,
\* as often as the store holds it, and the pass sets the followers of every
\* member m to the number of edges read with m as source plus the number with m
\* as target: a number in which the viewer does not occur.
C3_FollowersCountsBothEndpoints ==
  [][\A u \in Members : \A p \in ProcsOf(u, "loadMembers") :
       /\ p.pc = "allConnectionsData" =>
            \A q \in BagRows(procs'[u]) :
              (q.kind = "loadMembers" /\ Stepped(u, p, q) /\ q.allConnectionsData # None)
              => /\ \A r \in BagRows(q.allConnectionsData[1]) :
                     r.connection_type = "colleague"
                 /\ \A x, y \in Ids :
                     CopiesIn(MCRow(x, y, "colleague"), q.allConnectionsData[1])
                       = CopiesIn(MCRow(x, y, "colleague"), member_connections)
       /\ MembersCommit(u, p)
          => \A i \in 1..Len(members'[u]) :
               members'[u][i].followers
                 = EndpointCount(p.allConnectionsData[1], members'[u][i].id)
    ]_vars

\* A and B both see the same count for C, made of edges in which C is the source
\* and edges in which C is the target, and A sees a count for B, with whom A
\* has no edge
C3_Witness ==
  /\ MembersQuiescent
  /\ \E n \in 2..4 :
       /\ n = EndpointCount(member_connections, "C")
       /\ \E i \in 1..Len(members["A"]) :
            members["A"][i].id = "C" /\ members["A"][i].followers = n
       /\ \E i \in 1..Len(members["B"]) :
            members["B"][i].id = "C" /\ members["B"][i].followers = n
  /\ \E r \in BagRows(member_connections) : r.member_id = "C"
  /\ \E r \in BagRows(member_connections) : r.connected_user_id = "C"
  /\ \E i \in 1..Len(members["A"]) :
       /\ members["A"][i].id = "B" /\ members["A"][i].followers > 0
       /\ ~members["A"][i].connected

\* C4: when the handlers that returned so far are exactly a successful
\* connectMember(b) of a and then a successful acceptRequest(a) of b, over a
\* store that held no request and no colleague edge between a and b, the store
\* holds exactly one colleague edge between a and b, and every loadMembers pass
\* of a or of b that then writes its result after reads that all succeeded shows
\* the other one with connected = TRUE.
C4_ConnectThenAccept ==
  [][\A a, b \in Members :
       (/\ a # b
        /\ history' = <<Ev(a, "connectMember", b), Ev(b, "acceptRequest", a)>>
        /\ AllHandlersDone')
       => /\ EdgeCount(a, b)' = 1
          /\ \A p \in ProcsOf(a, "loadMembers") :
               MembersCommit(a, p)
               => \E i \in 1..Len(members'[a]) :
                    members'[a][i].id = b /\ members'[a][i].connected
          /\ \A p \in ProcsOf(b, "loadMembers") :
               MembersCommit(b, p)
               => \E i \in 1..Len(members'[b]) :
                    members'[b][i].id = a /\ members'[b][i].connected
    ]_vars

\* A asked, B accepted, and both lists were reloaded afterwards
C4_Witness ==
  /\ history = <<Ev("A", "connectMember", "B"), Ev("B", "acceptRequest", "A")>>
  /\ MembersQuiescent
  /\ EdgeCount("A", "B") = 1
  /\ Shows(members["A"], "B", TRUE, "none")
  /\ Shows(members["B"], "A", TRUE, "none")

C6_DisconnectEitherDirection ==
  [][\A u \in Members : \A m \in Members :
       /\ (Len(history') > 0 /\ history'[Len(history')] = Ev(u, "disconnectMember", m)
             /\ AllHandlersDone')
          => /\ EdgeCount(u, m)' = 0
             /\ \A i \in 1..Len(members'[u]) :
                  members'[u][i].id = m => ~members'[u][i].connected
       /\ (/\ Len(history) > 0 /\ history[Len(history)] = Ev(u, "disconnectMember", m)
           /\ \E q \in BagRows(procs'[u]) :
                q.kind = "handleDisconnectMember" /\ q.memberId = m)
          => member_connections' = member_connections
       /\ (/\ history' # history
           /\ EndsWith(history', Ev(u, "disconnectMember", m),
                       Ev(u, "disconnectMember", m)))
          => /\ Len(toasts'[u]) = Len(toasts[u]) + 1
             /\ toasts'[u][Len(toasts'[u])].type = "success"
    ]_vars

\* A disconnected B twice, starting from the store that holds the colleague
\* edges A -> B and B -> A (the only initial store with the follow edge A -> X),
\* and the list was reloaded afterwards
C6_Witness ==
  /\ history = <<Ev("A", "disconnectMember", "B"), Ev("A", "disconnectMember", "B")>>
  /\ member_connections = SetToBag({MCRow("A", "X", "follow")})
  /\ MembersQuiescent
  /\ Shows(members["A"], "B", FALSE, "none")
  /\ localStorage["A"].members # None

\* C8: (1) when the only handler that returned is a successful connectMember(b)
\* of a, and a and b hold no colleague edge, a loadMembers pass of b that writes
\* its result after reads that all succeeded shows a with requestStatus =
\* pending, and such a pass of a shows b with requestStatus = pending and
\* connected = FALSE; (2) when b's successful
\* acceptRequest(a) returned next, such a pass of a or of b shows the other one
\* with connected = TRUE and requestStatus other than pending.
C8_RequestScenario ==
  [][\A a, b \in Members :
       /\ (/\ a # b /\ EdgeCount(a, b) = 0
           /\ history' = <<Ev(a, "connectMember", b)>> /\ AllHandlersDone')
          => /\ \A p \in ProcsOf(b, "loadMembers") :
                  MembersCommit(b, p)
                  => \E i \in 1..Len(members'[b]) :
                       /\ members'[b][i].id = a
                       /\ members'[b][i].requestStatus = "pending"
             /\ \A p \in ProcsOf(a, "loadMembers") :
                  MembersCommit(a, p) => Shows(members'[a], b, FALSE, "pending")
       /\ (/\ a # b
           /\ history' = <<Ev(a, "connectMember", b), Ev(b, "acceptRequest", a)>>
           /\ AllHandlersDone')
          => /\ \A p \in ProcsOf(a, "loadMembers") :
                  MembersCommit(a, p) => Shows(members'[a], b, TRUE, "none")
             /\ \A p \in ProcsOf(b, "loadMembers") :
                  MembersCommit(b, p) => Shows(members'[b], a, TRUE, "none")
    ]_vars

(***************************************************************************)
(* Properties of messaging and of the toasts                               *)
(***************************************************************************)
OnlyBlanks(str) == \A i \in 1..Len(str) : str[i] = " "

\* C9: a handleSendMessage call made while no connection is selected, or while
\* the draft is empty or consists of blanks only, changes nothing: no row of
\* messages (nor of any other table), the draft and the rest of the view state
\* as before, no toast and no toast timer, no call started (so no loadMessages)
\* and no event sent.
C9_SendRejectedIsNoOp ==
  [][\A u \in Members :
       (handleSendMessage_insert(u)
          /\ (selectedConnection[u] = None \/ OnlyBlanks(messageInput[u])))
       => UNCHANGED <<dbVars, viewVars, toastVars, localStorage, procs, inbox>>
    ]_vars

\* the send button was pressed with a connection selected and a draft of blanks
\* only, and nothing was sent
C9_Witness ==
  /\ selectedConnection["A"] # None
  /\ messageInput["A"] = <<" ", " ">>
  /\ Len(history) > 0
  /\ history[Len(history)] = [user |-> "A", op |-> "sendMessage", id |-> "none",
                              ok |-> FALSE, clean |-> TRUE]
  /\ ops = MaxOps
  /\ Len(messagesTable) <= 1 /\ toasts["A"] = <<>>

InQueue(u, id) == \E i \in 1..Len(toasts[u]) : toasts[u][i].id = id

\* C10: every toast in the queue is eventually not in the queue, however many
\* toasts are queued with it; a toast leaves the queue only in the step in which
\* the timer set for it fires, and that step removes no other toast; and
\* whenever no toast timer is pending the queue is empty.
C10_ToastsExpire ==
  /\ \A id \in 1..MaxToasts : InQueue("A", id) ~> ~InQueue("A", id)
  /\ [][\A id \in 1..MaxToasts :
          (InQueue("A", id) /\ ~InQueue("A", id)')
          => /\ toastTimers["A"] # <<>> /\ Head(toastTimers["A"]) = id
             /\ toastTimers'["A"] = Tail(toastTimers["A"])
             /\ Len(toasts'["A"]) = Len(toasts["A"]) - 1]_vars
  /\ [](toastTimers["A"] = <<>> => toasts["A"] = <<>>)

\* the first toast has expired while two toasts added later are still queued
C10_Witness ==
  /\ toastSeq["A"] = 3
  /\ Len(toasts["A"]) = 2 /\ InQueue("A", 2) /\ InQueue("A", 3)
  /\ toastTimers["A"] = <<2, 3>>

(***************************************************************************)
(* Properties of the handlers under concurrency and failure                *)
(***************************************************************************)
\* C11: in every step, every request row stays a row with the same sender and
\* recipient (no row is deleted), and a row whose status is accepted or rejected
\* keeps its status.
C11_TerminalStatusFinal ==
  [][/\ Len(connection_requests') >= Len(connection_requests)
     /\ \A i \in 1..Len(connection_requests) :
          /\ connection_requests'[i].sender_id = connection_requests[i].sender_id
          /\ connection_requests'[i].recipient_id = connection_requests[i].recipient_id
          /\ connection_requests[i].status \in {"accepted", "rejected"}
             => connection_requests'[i].status = connection_requests[i].status
    ]_vars

\* the handler call p of user u runs its last step: it returns, or it is replaced
\* by the timer of the delayed reload
Finishes(u, p) == p.pc = "finish" /\ (Returned(u, p) \/ Stepped(u, p, NewTimer("loadCreators")))
LastToast(u) == toasts'[u][Len(toasts'[u])]
ToastAdded(u, type) ==
  Len(toasts'[u]) = Len(toasts[u]) + 1 /\ LastToast(u).type = type

\* C12: a handleFollowCreator call sends the second insert whatever the first
\* returned, and records for each insert an error exactly when the insert added
\* no row.  Its last step changes no table (an insert that succeeded stays) and,
\* when neither error is recorded, adds a success toast, writes the captured
\* list with the creator's followed = TRUE and sets the timer of the reload;
\* when an error is recorded it adds an error toast, leaves the list as it is
\* and sets no timer.
C12_FollowSucceedsIffBothInserts ==
  [][\A u \in Members :
       /\ \A q \in BagRows(procs'[u]) :
            (q.kind = "handleFollowCreator" /\ procs'[u] = BagAdd(procs[u], q))
            => /\ q.pc = "insertMedia"
               /\ q.connectionError <=> member_connections' = member_connections
               /\ ~q.connectionError
                  => member_connections'
                       = BagAdd(member_connections, MCRow(u, q.creator.id, "follow"))
       /\ \A p \in ProcsOf(u, "handleFollowCreator") :
            /\ p.pc = "insertMedia"
               => \A q \in BagRows(procs'[u]) :
                    (q.kind = "handleFollowCreator" /\ Stepped(u, p, q))
                    => /\ q.pc = "finish" /\ q.connectionError = p.connectionError
                       /\ q.mediaError <=> media_page_follows' = media_page_follows
                       /\ ~q.mediaError
                          => media_page_follows'
                               = BagAdd(media_page_follows, MediaRow(u, p.creator.name))
            /\ Finishes(u, p)
               => /\ UNCHANGED dbVars
                  /\ IF ~p.connectionError /\ ~p.mediaError
                     THEN /\ ToastAdded(u, "success")
                          /\ creators'[u] = SetFollowed(p.creators, p.creator.id, TRUE)
                          /\ Stepped(u, p, NewTimer("loadCreators"))
                     ELSE /\ ToastAdded(u, "error")
                          /\ creators'[u] = creators[u]
                          /\ Returned(u, p)
    ]_vars

\* a follow whose second insert failed has returned: the edge it inserted is
\* still there, the legacy row is not, the toast is an error and the list does
\* not show the creator as followed
C12_Witness ==
  \E c \in Creators :
    /\ history = <<[user |-> "A", op |-> "followCreator", id |-> c, ok |-> FALSE,
                    clean |-> FALSE]>>
    /\ FollowEdgeExists("A", c) /\ ~LegacyFollowExists("A", profiles[c].name)
    /\ toasts["A"] = <<[id |-> 1, type |-> "error", message |-> "Failed to follow creator"]>>
    /\ \E i \in 1..Len(creators["A"]) : creators["A"][i].id = c /\ ~creators["A"][i].followed

\* C13: the first step of a handleConnectMember(m) call of user u appends the
\* one row (u, m, pending) to connection_requests, or nothing when the insert
\* returns an error, and no step of the call changes any other table.  When the
\* insert succeeded, its last step changes in u's list only the requestStatus
\* of m, to pending (connected and every other entry stay), adds m to the
\* pending map and adds a success toast; when it failed, list, pending map and
\* cache stay as they are and the toast is an error.
C13_ConnectInsertsOneRequest ==
  [][\A u \in Members :
       /\ \A q \in BagRows(procs'[u]) :
            (q.kind = "handleConnectMember" /\ procs'[u] = BagAdd(procs[u], q))
            => /\ UNCHANGED <<profiles, member_connections, media_page_follows,
                              messagesTable>>
               /\ q.error <=> connection_requests' = connection_requests
               /\ ~q.error
                  => connection_requests'
                       = Append(connection_requests,
                                [sender_id |-> u, recipient_id |-> q.member.id,
                                 status |-> "pending"])
       /\ \A p \in ProcsOf(u, "handleConnectMember") :
            Returned(u, p)
            => /\ UNCHANGED <<dbVars, localStorage>>
               /\ IF ~p.error
                  THEN /\ ToastAdded(u, "success")
                       /\ Len(members'[u]) = Len(members[u])
                       /\ \A i \in 1..Len(members[u]) :
                            /\ members'[u][i].id = members[u][i].id
                            /\ members'[u][i].name = members[u][i].name
                            /\ members'[u][i].connected = members[u][i].connected
                            /\ members'[u][i].followers = members[u][i].followers
                            /\ members'[u][i].requestStatus
                                 = IF members[u][i].id = p.member.id THEN "pending"
                                   ELSE members[u][i].requestStatus
                       /\ pendingRequests'[u] = pendingRequests[u] \cup {p.member.id}
                  ELSE /\ ToastAdded(u, "error")
                       /\ members'[u] = members[u]
                       /\ pendingRequests'[u] = pendingRequests[u]
    ]_vars

\* A sent a request to C, with whom A is connected already: the request is
\* stored, no edge was added, and A's list shows C as connected and pending
C13_Witness ==
  /\ history = <<Ev("A", "connectMember", "C")>>
  /\ connection_requests
       = <<[sender_id |-> "A", recipient_id |-> "C", status |-> "pending"]>>
  /\ EdgeCount("A", "C") = 1 /\ EdgeCount("A", "B") = 0
  /\ Shows(members["A"], "C", TRUE, "pending")
  /\ Shows(members["A"], "B", FALSE, "none")
  /\ "C" \in pendingRequests["A"]

\* the ids of the pending requests from m to u
PendingFrom(m, u) ==
  {i \in 1..Len(connection_requests) :
     connection_requests[i]
       = [sender_id |-> m, recipient_id |-> u, status |-> "pending"]}
RequestHandlers == {"handleAcceptConnectionRequest", "handleDeclineConnectionRequest"}

\* C14: an accept or decline call of user u for member m goes on to its update
\* only with a request from m to u that is pending when it is looked up; and
\* when no such request exists the call returns in its first step, in which no
\* table, no part of the view state, no toast, no cache entry, no in-flight
\* call or timer and no event changes.
C14_NoPendingRequestIsSilentNoOp ==
  [][\A u \in Members :
       /\ \A q \in BagRows(procs'[u]) :
            (q.kind \in RequestHandlers /\ procs'[u] = BagAdd(procs[u], q))
            => q.requestId \in PendingFrom(q.memberId, u)
       /\ (/\ ops' = ops + 1 /\ Len(history') = Len(history) + 1
           /\ history'[Len(history')].user = u
           /\ history'[Len(history')].op \in {"acceptRequest", "declineRequest"}
           /\ PendingFrom(history'[Len(history')].id, u) = {})
          => UNCHANGED <<dbVars, viewVars, toastVars, localStorage, procs, inbox>>
    ]_vars

\* A accepted B's request and then declined it: the second call found no
\* pending request, the request is still accepted and the only toast is the
\* first call's
C14_Witness ==
  /\ history = <<Ev("A", "acceptRequest", "B"),
                 [user |-> "A", op |-> "declineRequest", id |-> "B", ok |-> FALSE,
                  clean |-> TRUE]>>
  /\ connection_requests
       = <<[sender_id |-> "B", recipient_id |-> "A", status |-> "accepted"]>>
  /\ Len(toasts["A"]) = 1

MutatingOps == {"followCreator", "unfollowCreator", "connectMember", "acceptRequest",
                "declineRequest", "disconnectMember", "sendMessage"}

\* C15: whenever a call of a mutating operation ends after one of its gateway
\* calls returned a failure, the step that ends it enqueues an error toast for
\* the calling user.
C15_FailureEnqueuesErrorToast ==
  [][\A u \in Members :
       (/\ Len(history') = Len(history) + 1
        /\ history'[Len(history')].user = u
        /\ history'[Len(history')].op \in MutatingOps
        /\ ~history'[Len(history')].clean)
       => ToastAdded(u, "error")
    ]_vars

\* a stored entry that carries a derived value
DerivedInEntry(e) ==
  \/ "followed" \in DOMAIN e /\ e.followed
  \/ "connected" \in DOMAIN e /\ e.connected
  \/ "requestStatus" \in DOMAIN e /\ e.requestStatus = "pending"
CreatorsCacheClean(u) ==
  localStorage[u].creators # None
  => \A i \in 1..Len(localStorage[u].creators[1]) :
       ~DerivedInEntry(localStorage[u].creators[1][i])
MembersCacheClean(u) ==
  localStorage[u].members # None
  => \A i \in 1..Len(localStorage[u].members[1]) :
       /\ ~DerivedInEntry(localStorage[u].members[1][i])
       /\ "followers" \notin DOMAIN localStorage[u].members[1][i]

\* C16: in every reachable state no entry of the snapshot stored under
\* connect_creators_cache has followed = true, and no entry of the snapshot
\* stored under connect_members_cache has connected = true, a pending
\* requestStatus or a connection count.
C16_CacheHoldsNoDerivedValues ==
  \A u \in Members : CreatorsCacheClean(u) /\ MembersCacheClean(u)

\* a pass that ends in this step after one of its reads failed: it ends at its
\* first read, or it holds no data for one of its later reads
FailedRead(p) ==
  \/ p.pc = "profiles"
  \/ p.kind = "loadCreators"
     /\ (p.memberConnectionsData = None \/ p.mediaFollowsData = None)
  \/ p.kind = "loadMembers"
     /\ (p.outgoingConnections = None \/ p.incomingConnections = None
         \/ p.allConnectionsData = None \/ p.sentRequests = None)
CreatorFlagsKept(u) ==
  \A i \in 1..Len(creators[u]) : \A j \in 1..Len(creators'[u]) :
    creators[u][i].id = creators'[u][j].id
    => creators'[u][j].followed = creators[u][i].followed
MemberFlagsKept(u) ==
  \A i \in 1..Len(members[u]) : \A j \in 1..Len(members'[u]) :
    members[u][i].id = members'[u][j].id
    => /\ members'[u][j].connected = members[u][i].connected
       /\ members'[u][j].requestStatus = members[u][i].requestStatus
       /\ members'[u][j].followers = members[u][i].followers

\* C17: when a loadCreators or loadMembers pass ends after one of its reads
\* failed, every creator shown before keeps its followed flag, every member
\* shown before keeps its connected flag, requestStatus and count, and the
\* pending map is unchanged.
C17_FailedReadLeavesList ==
  [][\A u \in Members : \A p \in BagRows(procs[u]) :
       (p.kind \in {"loadCreators", "loadMembers"} /\ Returned(u, p) /\ FailedRead(p))
       => /\ CreatorFlagsKept(u) /\ MemberFlagsKept(u)
          /\ pendingRequests'[u] = pendingRequests[u]
    ]_vars

Subscribed == {u \in Members : subscriptions[u] # {}}

\* C18: a step that ends the session of a user (the identity changes or the
\* view is torn down) leaves none of the five channels subscribed for that
\* user; after every step at most one user has subscriptions, that user is the
\* one whose effects ran and holds all five channels; no undelivered event
\* belongs to a released channel, and a step that delivers an event to a
\* handler delivers an event of a channel that is subscribed.
C18_SubscriptionsReleased ==
  [][/\ \A u \in Members :
          /\ (mounted[u] /\ ~mounted'[u]) => subscriptions'[u] = {}
          /\ subscriptions'[u] # {} => (mounted'[u] /\ subscriptions'[u] = Channels)
          /\ \A ev \in inbox'[u] : ev.channel \in subscriptions'[u]
          /\ mounted' = mounted
             => \A ev \in inbox[u] \ inbox'[u] : ev.channel \in subscriptions[u]
     /\ Cardinality(Subscribed') <= 1
    ]_vars

\* A sent a request to B and its event was handled; then the identity changed
\* to B: A's channels are released, B holds the five, and no call is in flight
C18_Witness ==
  /\ history = <<Ev("A", "connectMember", "B")>>
  /\ ~mounted["A"] /\ mounted["B"]
  /\ subscriptions["A"] = {} /\ subscriptions["B"] = Channels
  /\ inbox["A"] = {} /\ inbox["B"] = {}
  /\ procs["A"] = EmptyBag /\ procs["B"] = EmptyBag
  /\ Len(toasts["B"]) = 1 /\ toasts["A"] = <<>>

\* what a pass of loadMembers computes when all its reads see the current store
FreshPass(u) ==
  [NewLoadMembers EXCEPT !.pc = "setMembers",
                         !.data = Some(QueryMemberProfiles(u)),
                         !.outgoingConnections = Some(QueryOutgoingConnections(u)),
                         !.incomingConnections = Some(QueryIncomingConnections(u)),
                         !.allConnectionsData = Some(QueryAllConnections),
                         !.sentRequests = Some(QuerySentRequests(u))]
MembersConsistent(u) ==
  /\ members[u] = membersWithConnectionStatus(FreshPass(u))
  /\ pendingRequests[u] = pendingRequestsMap(FreshPass(u))

\* C19: when every started call gets its answer, every event is delivered and
\* no gateway call fails, then from some point on the members list of the open
\* page (each member's connected flag, requestStatus and count) and the pending
\* map equal what loadMembers computes from the remote state, for ever.
C19_EventuallyConsistent ==
  <>[](\A u \in Members : (mounted[u] /\ faults = 0) => MembersConsistent(u))

\* the step in which pass p of user u reaches its end
Commits(u, p) ==
  /\ p \in BagRows(procs[u])
  /\ p.pc \in {"setCreators", "setMembers"}
  /\ procs'[u] = Superseding(BagRemoveOne(procs[u], p), p)

\* C20: a pass that reaches its end writes its own results to the view, also
\* when a pass started after it has written the view before (last writer wins
\* by completion order).
C20_LastWriterWins ==
  [][\A u \in Members : \A p \in BagRows(procs[u]) :
       Commits(u, p)
       => /\ p.kind = "loadMembers"
             => /\ members'[u] = membersWithConnectionStatus(p)
                /\ pendingRequests'[u] = pendingRequestsMap(p)
          /\ p.kind = "loadCreators" => creators'[u] = creatorsWithFollowStatus(p)
    ]_vars

\* A sent requests to B and to C; the pass started after the second request
\* has shown both as pending; then the pass started before it wrote the view:
\* the request to C is stored as pending and the view shows none for C
C20_Witness ==
  /\ history = <<Ev("A", "connectMember", "B"), Ev("A", "connectMember", "C"),
                 [user |-> "A", op |-> "loadMembers", id |-> "superseded",
                  ok |-> TRUE, clean |-> TRUE]>>
  /\ connection_requests
       = <<[sender_id |-> "A", recipient_id |-> "B", status |-> "pending"],
           [sender_id |-> "A", recipient_id |-> "C", status |-> "pending"]>>
  /\ Shows(members["A"], "B", FALSE, "pending")
  /\ Shows(members["A"], "C", FALSE, "none")
  /\ pendingRequests["A"] = {"B"}
  /\ PassCount("A", "loadMembers") = 0
  /\ faults = 0

\* C21: when a call of handleAcceptConnectionRequest ends after its update
\* step, the request it looked up has status accepted if and only if its
\* insert of the colleague edge succeeded.
C21_AcceptIsAtomic ==
  [][\A u \in Members : \A p \in ProcsOf(u, "handleAcceptConnectionRequest") :
       (p.pc = "finish"
        /\ (Returned(u, p) \/ Stepped(u, p, NewTimer("loadMembers"))))
       => (connection_requests[p.requestId].status = "accepted" <=> ~p.error)
    ]_vars

\* C22: no step takes a pair of members from at most one colleague edge
\* (counting both directions) to more than one.
C22_AtMostOneEdgePerPair ==
  [][\A a \in Members : \A b \in Members \ {a} :
       EdgeCount(a, b) <= 1 => EdgeCount(a, b)' <= 1
    ]_vars

\* the flags of entry e in the view of u are backed by rows of u in the store
OwnData(u, e) ==
  /\ e.id # u
  /\ ("followed" \in DOMAIN e /\ e.followed)
     => (e.id \in QueryFollowedViaConnection(u) \/ e.name \in QueryFollowedViaMedia(u))
  /\ ("connected" \in DOMAIN e /\ e.connected) => EdgeCount(u, e.id) > 0
  /\ ("requestStatus" \in DOMAIN e /\ e.requestStatus = "pending")
     => \E i \in 1..Len(connection_requests) :
          /\ connection_requests[i].sender_id = u
          /\ connection_requests[i].recipient_id = e.id

\* C23: in a session in which no row is ever deleted, the lists shown to the
\* user whose effects ran never contain that user, a followed or connected
\* flag without a follow or an edge of that user, or a pending flag without a
\* request sent by that user.
C23_ViewFromOwnDataOnly ==
  \A u \in Members :
    mounted[u]
    => /\ \A i \in 1..Len(creators[u]) : OwnData(u, creators[u][i])
       /\ \A i \in 1..Len(members[u]) : OwnData(u, members[u][i])

\* the step delivers event ev of user u to its handler
Delivered(u, ev) ==
  ev \in inbox[u] /\ inbox'[u] = inbox[u] \ {ev} /\ mounted' = mounted

\* C24: a step that delivers a member_connections change event to user u
\* removes the members cache, starts exactly one loadMembers pass, and starts
\* one loadConnections call when the changed row has u as member_id or as
\* connected_user_id and none otherwise.
C24_MemberConnectionsReactor ==
  [][\A u \in Members : \A ev \in inbox[u] :
       (ev.channel = "member_connections_changes" /\ Delivered(u, ev))
       => /\ localStorage'[u].members = None
          /\ PassCount(u, "loadMembers")' = PassCount(u, "loadMembers") + 1
          /\ PassCount(u, "loadConnections")'
               = PassCount(u, "loadConnections")
                 + (IF u \in {ev.member_id, ev.connected_user_id} THEN 1 ELSE 0)
    ]_vars

\* B disconnected from C while A's page was open: A's handler dropped the
\* cache written by A's first pass and started a pass, and A's only
\* loadConnections call is the one of the mount
C24_Witness ==
  /\ history = <<Ev("B", "disconnectMember", "C")>>
  /\ mounted["A"] /\ membersLoaded["A"]
  /\ localStorage["A"].members = None
  /\ PassCount("A", "loadMembers") = 1
  /\ PassCount("A", "loadConnections") = 1
  /\ \A ev \in inbox["A"] : ev.channel # "member_connections_changes"

NewRequestToast(u) ==
  /\ Len(toasts'[u]) = Len(toasts[u]) + 1
  /\ LastToast(u).message = "You have a new connection request"

\* C25: a step that delivers a connection_requests change event to user u
\* removes the members cache and starts exactly one loadMembers pass; it adds
\* the new-request toast when the changed row is pending and addressed to u,
\* and leaves the toasts unchanged otherwise.
C25_ConnectionRequestsReactor ==
  [][\A u \in Members : \A ev \in inbox[u] :
       (ev.channel = "connection_requests_changes" /\ Delivered(u, ev))
       => /\ localStorage'[u].members = None
          /\ PassCount(u, "loadMembers")' = PassCount(u, "loadMembers") + 1
          /\ IF ev.recipient_id = u /\ ev.status = "pending"
             THEN NewRequestToast(u)
             ELSE toasts'[u] = toasts[u]
    ]_vars

\* B sent a request to A and A accepted it; both pages handled both events:
\* A holds the new-request toast and the accepted toast and nothing for the
\* accept transition, B holds only its own request-sent toast
C25_Witness ==
  /\ history = <<Ev("B", "connectMember", "A"), Ev("A", "acceptRequest", "B")>>
  /\ mounted["A"] /\ mounted["B"]
  /\ \A u \in {"A", "B"} : \A ev \in inbox[u] : ev.channel # "connection_requests_changes"
  /\ Len(toasts["A"]) = 2
  /\ toasts["A"][1].message = "You have a new connection request"
  /\ toasts["A"][2].message = "Connection accepted"
  /\ Len(toasts["B"]) = 1

\* C26: a call of handleDisconnectMember for member m issues both deletes: a
\* delete that returns no error leaves no colleague edge of its direction.
\* When the call ends with at least one delete without error, the members
\* cache is removed, m is shown as not connected, a success toast is added
\* and a loadMembers reload is scheduled; when both deletes failed, an error
\* toast is added, nothing is scheduled and list and cache are unchanged.
C26_DisconnectSucceedsOnEitherDelete ==
  [][\A u \in Members :
       /\ \A q \in BagRows(procs'[u]) :
            (q.kind = "handleDisconnectMember" /\ q.pc = "deleteIncoming"
             /\ procs'[u] = BagAdd(procs[u], q) /\ ~q.error1)
            => ColleagueEdges(u, q.memberId)' = {}
       /\ \A p \in ProcsOf(u, "handleDisconnectMember") :
            /\ (p.pc = "deleteIncoming"
                /\ Stepped(u, p, [p EXCEPT !.pc = "finish", !.error2 = FALSE]))
               => ColleagueEdges(p.memberId, u)' = {}
            /\ (p.pc = "finish" /\ (Returned(u, p) \/ Stepped(u, p, NewTimer("loadMembers"))))
               => IF ~p.error1 \/ ~p.error2
                  THEN /\ Stepped(u, p, NewTimer("loadMembers"))
                       /\ localStorage'[u].members = None
                       /\ \A i \in 1..Len(members'[u]) :
                            members'[u][i].id = p.memberId => ~members'[u][i].connected
                       /\ ToastAdded(u, "success")
                  ELSE /\ Returned(u, p)
                       /\ ToastAdded(u, "error")
                       /\ members'[u] = members[u]
                       /\ localStorage'[u] = localStorage[u]
    ]_vars

\* A and B were connected in both directions; A's first delete failed and the
\* second succeeded: the call counts as a success although the edge A -> B is
\* still stored
C26_Witness ==
  /\ history = <<[user |-> "A", op |-> "disconnectMember", id |-> "B", ok |-> TRUE,
                  clean |-> FALSE]>>
  /\ ColleagueEdgeExists("A", "B") /\ ~ColleagueEdgeExists("B", "A")
  /\ Shows(members["A"], "B", FALSE, "none")
  /\ localStorage["A"].members = None
  /\ NewTimer("loadMembers") \in BagRows(procs["A"])
  /\ Len(toasts["A"]) = 1 /\ toasts["A"][1].type = "success"

\* the list `new` is the list `old` with, at most, another followers value in
\* the entries of profile id
OnlyFollowersOf(old, new, ev) ==
  /\ Len(new) = Len(old)
  /\ \A i \in 1..Len(old) :
       IF old[i].id = ev.id
       THEN /\ new[i].followers = ev.followers
            /\ [new[i] EXCEPT !.followers = old[i].followers] = old[i]
       ELSE new[i] = old[i]

\* C27: the delivery of a profiles UPDATE event for profile p to a viewer
\* changes, in the viewer's creators and members lists, only the followers
\* field of the entries with id p (length, order, every other field and
\* every other entry are kept), and starts no pass and no timer.
C27_ProfilesEventChangesFollowersOnly ==
  [][\A u \in Members : \A ev \in inbox[u] :
       (ev.channel = "profiles_changes" /\ Delivered(u, ev))
       => /\ OnlyFollowersOf(creators[u], creators'[u], ev)
          /\ OnlyFollowersOf(members[u], members'[u], ev)
          /\ procs' = procs
          /\ connections' = connections /\ pendingRequests' = pendingRequests
    ]_vars

\* a viewer whose loaded lists hold several entries has received a profiles
\* event: one entry shows the new followers value, another a different one
C27_Witness ==
  \E u \in Members : \E id \in Ids :
    /\ mounted[u] /\ membersLoaded[u]
    /\ profiles[id].followers = 1
    /\ \A ev \in inbox[u] : ev.channel # "profiles_changes"
    /\ \E i, j \in 1..Len(members[u]) :
         /\ members[u][i].id = id /\ members[u][i].followers = 1
         /\ members[u][j].id # id /\ members[u][j].followers = 0
    /\ localStorage[u].members = Some(members[u])

\* C28: once a loadMembers pass of a viewer has completed, the followers
\* value shown for a member changes only in the step in which a loadMembers
\* pass of that viewer commits its list; no other step overwrites it.
C28_CountChangesOnlyInPass ==
  [][\A u \in Members :
       (/\ mounted[u] /\ mounted' = mounted /\ membersLoaded[u]
        /\ \E i \in 1..Len(members[u]) :
             /\ i <= Len(members'[u])
             /\ members'[u][i].id = members[u][i].id
             /\ members'[u][i].followers # members[u][i].followers)
       => \E p \in ProcsOf(u, "loadMembers") : Commits(u, p)
    ]_vars

\* member.connected ? (Message, Connected) : member.requestStatus === 'pending'
\* ? (Accept, Decline) : (Connect)
OffersAcceptDecline(list, m) == Shows(list, m, FALSE, "pending")

\* C29: when a loadMembers pass of viewer u whose reads all succeeded writes
\* its list, every member m with a pending request addressed to u and no
\* colleague edge with u is shown with requestStatus = pending and connected =
\* FALSE, that is with the accept and decline buttons, and these buttons are
\* shown for no member without a pending request addressed to u.
C29_IncomingRequestOnCard ==
  [][\A u \in Members : \A p \in ProcsOf(u, "loadMembers") :
       MembersCommit(u, p)
       => \A m \in Members \ {u} :
            /\ (PendingFrom(m, u) # {} /\ EdgeCount(u, m) = 0)
               => OffersAcceptDecline(members'[u], m)
            /\ OffersAcceptDecline(members'[u], m) => PendingFrom(m, u) # {}
    ]_vars

\* C30: when two handleFollowCreator calls of a viewer for two different
\* creators have both returned successfully and neither of the reloads they
\* scheduled has started, the viewer's list shows both creators as followed.
C30_BothFollowsKept ==
  \A u \in Members :
    (/\ Len(history) = 2
     /\ \A k \in 1..2 : /\ history[k].user = u /\ history[k].op = "followCreator"
                        /\ history[k].ok
     /\ history[1].id # history[2].id
     /\ CopiesIn(NewTimer("loadCreators"), procs[u]) = 2)
    => \A i \in 1..Len(creators[u]) :
         creators[u][i].id \in {history[1].id, history[2].id} => creators[u][i].followed

\* C31: when a loadMembers pass whose reads all succeeded writes its list,
\* every member it shows with connected = TRUE has a followers value (the
\* connection count of the same pass) of at least 1, also when rows of
\* member_connections were written while the pass was running.
C31_ConnectedHasCount ==
  [][\A u \in Members : \A p \in ProcsOf(u, "loadMembers") :
       (MembersCommit(u, p) /\ members'[u] = membersWithConnectionStatus(p))
       => \A i \in 1..Len(members'[u]) :
            members'[u][i].connected => members'[u][i].followers >= 1
    ]_vars

\* the rows of table `after` are those of `before` without the rows in `gone`
RowsDeleted(before, after, gone) ==
  /\ \A r \in gone : CopiesIn(r, after) = 0
  /\ \A r \in BagRows(before) \ gone : CopiesIn(r, after) = CopiesIn(r, before)
  /\ BagRows(after) \subseteq BagRows(before)

\* C32: a handleUnfollowCreator(id) call with id not in the caller's creators
\* list adds an error toast and starts no delete. Otherwise the first delete,
\* when it returns no error, removes the member_connections rows
\* (caller, id) and no other row, and the second, when it returns no error,
\* removes the media_page_follows rows (caller, name of the creator) and no
\* other row; a delete that returns an error removes nothing. At the end the
\* call writes followed = FALSE for id, adds a success toast and schedules a
\* loadCreators reload exactly when neither delete returned an error, and
\* otherwise adds an error toast and leaves the list as it is.
C32_UnfollowContract ==
  [][\A u \in Members :
       /\ (/\ history' # history /\ Len(history') = Len(history) + 1
           /\ history'[Len(history')].user = u
           /\ history'[Len(history')].op = "unfollowCreator"
           /\ procs'[u] = procs[u])
          => /\ FindById(creators[u], history'[Len(history')].id) = None
             /\ ToastAdded(u, "error")
             /\ UNCHANGED <<dbVars, creators>>
       /\ \A q \in BagRows(procs'[u]) :
            (q.kind = "handleUnfollowCreator" /\ q.pc = "deleteMedia"
             /\ procs'[u] = BagAdd(procs[u], q))
            => /\ FindById(creators[u], q.creatorId) # None
               /\ media_page_follows' = media_page_follows
               /\ IF q.connectionError
                  THEN member_connections' = member_connections
                  ELSE RowsDeleted(member_connections, member_connections',
                                   {r \in BagRows(member_connections) :
                                      r.member_id = u /\ r.connected_user_id = q.creatorId})
       /\ \A p \in ProcsOf(u, "handleUnfollowCreator") :
            /\ \A e \in BOOLEAN :
                 (p.pc = "deleteMedia"
                  /\ Stepped(u, p, [p EXCEPT !.pc = "finish", !.mediaError = e]))
                 => /\ member_connections' = member_connections
                    /\ IF e
                       THEN media_page_follows' = media_page_follows
                       ELSE RowsDeleted(media_page_follows, media_page_follows',
                              {r \in BagRows(media_page_follows) :
                                 /\ r.follower_id = u
                                 /\ \E i \in 1..Len(p.creators) :
                                      /\ p.creators[i].id = p.creatorId
                                      /\ r.creator_name = p.creators[i].name})
            /\ (p.pc = "finish" /\ (Returned(u, p) \/ Stepped(u, p, NewTimer("loadCreators"))))
               => IF ~p.connectionError /\ ~p.mediaError
                  THEN /\ Stepped(u, p, NewTimer("loadCreators"))
                       /\ \A i \in 1..Len(creators'[u]) :
                            creators'[u][i].id = p.creatorId => ~creators'[u][i].followed
                       /\ \E i \in 1..Len(creators'[u]) : creators'[u][i].id = p.creatorId
                       /\ ToastAdded(u, "success")
                  ELSE /\ Returned(u, p)
                       /\ ToastAdded(u, "error")
                       /\ creators'[u] = creators[u]
    ]_vars

\* A followed X and then unfollowed X, both calls succeeding: no row of either
\* table is left, X is shown as not followed and the reload is still pending
C32_Witness ==
  /\ history = <<Ev("A", "followCreator", "X"), Ev("A", "unfollowCreator", "X")>>
  /\ member_connections = EmptyBag /\ media_page_follows = EmptyBag
  /\ \E i \in 1..Len(creators["A"]) :
       creators["A"][i].id = "X" /\ ~creators["A"][i].followed
  /\ NewTimer("loadCreators") \in BagRows(procs["A"])
  /\ Len(toasts["A"]) = 2 /\ toasts["A"][2].type = "success"

\* creator c is in the list with followed = TRUE
ShowsFollowed(list, c) == \E i \in 1..Len(list) : list[i].id = c /\ list[i].followed

\* C33: for two different creators c and d with the same name: (1) when the
\* only handler that returned is a successful followCreator(c) of user u, a
\* loadCreators pass of u whose reads all succeeded shows c and d with
\* followed = TRUE; (2) a handleUnfollowCreator(d) call of u whose delete from
\* media_page_follows returned no error leaves no media_page_follows row
\* (u, name), the row that following c created.
C33_SharedNameMerges ==
  [][\A u \in Members : \A c, d \in Creators :
       (c # d /\ profiles[c].name = profiles[d].name)
       => /\ \A p \in ProcsOf(u, "loadCreators") :
               (/\ history = <<Ev(u, "followCreator", c)>>
                /\ p.pc = "setCreators" /\ Returned(u, p)
                /\ p.memberConnectionsData # None /\ p.mediaFollowsData # None)
               => ShowsFollowed(creators'[u], c) /\ ShowsFollowed(creators'[u], d)
          /\ \A p \in ProcsOf(u, "handleUnfollowCreator") :
               (/\ p.pc = "deleteMedia" /\ p.creatorId = d
                /\ Stepped(u, p, [p EXCEPT !.pc = "finish", !.mediaError = FALSE]))
               => ~LegacyFollowExists(u, profiles[c].name)'
    ]_vars

\* X and Y have the same name; A followed X, the reload stored a list with
\* both shown as followed, and A then unfollowed Y: the follow edge A -> X is
\* still there and the row of media_page_follows is gone
C33_Witness ==
  /\ profiles["X"].name = profiles["Y"].name
  /\ history = <<Ev("A", "followCreator", "X"), Ev("A", "unfollowCreator", "Y")>>
  /\ localStorage["A"].creators # None
  /\ ShowsFollowed(localStorage["A"].creators[1], "X")
  /\ ShowsFollowed(localStorage["A"].creators[1], "Y")
  /\ FollowEdgeExists("A", "X") /\ ~FollowEdgeExists("A", "Y")
  /\ ~LegacyFollowExists("A", profiles["X"].name)

C35_SendInsertsOneRow ==
  [][\A u \in Members :
       /\ (/\ Len(history') = Len(history) + 1
           /\ history'[Len(history')]
                = [user |-> u, op |-> "sendMessage", id |-> "none", ok |-> FALSE,
                   clean |-> TRUE])
          => (selectedConnection[u] = None \/ OnlyBlanks(messageInput[u]))
       /\ \A q \in BagRows(procs'[u]) :
            (q.kind = "handleSendMessage" /\ procs'[u] = BagAdd(procs[u], q))
            => /\ selectedConnection[u] # None /\ ~OnlyBlanks(messageInput[u])
               /\ IF q.error
                  THEN messagesTable' = messagesTable
                  ELSE /\ Len(messagesTable') = Len(messagesTable) + 1
                       /\ SubSeq(messagesTable', 1, Len(messagesTable)) = messagesTable
                       /\ LET row == messagesTable'[Len(messagesTable')]
                          IN /\ row.sender_id = u
                             /\ row.recipient_id = selectedConnection[u][1].id
                             /\ row.content = messageInput[u]
                             /\ ~row.read
       /\ \A p \in ProcsOf(u, "handleSendMessage") :
            CopiesIn(p, procs'[u]) < CopiesIn(p, procs[u])
            => /\ messagesTable' = messagesTable
               /\ IF ~p.error
                  THEN /\ messageInput'[u] = <<>>
                       /\ PassCount(u, "loadMessages")' = PassCount(u, "loadMessages") + 1
                  ELSE /\ messageInput'[u] = messageInput[u]
                       /\ messages'[u] = messages[u]
                       /\ PassCount(u, "loadMessages")' = PassCount(u, "loadMessages")
    ]_vars

\* A sent one message to B: the row is in the table, unread, and the draft is
\* empty again
C35_Witness ==
  /\ history = <<Ev("A", "sendMessage", "B")>>
  /\ messageInput["A"] = <<>>
  /\ Len(messagesTable) >= 1
  /\ LET row == messagesTable[Len(messagesTable)]
     IN /\ row.sender_id = "A" /\ row.recipient_id = "B" /\ ~row.read
        /\ ~OnlyBlanks(row.content)
  /\ \A i \in 1..(Len(messagesTable) - 1) : messagesTable[i].sender_id # "A"

\* C36: no step of a handleUnfollowCreator(c) call of user u changes the
\* number of copies of a member_connections row other than the follow edge
\* (u, c), nor the connection requests.
C36_UnfollowRemovesFollowOnly ==
  [][\A u \in Members :
       (\/ \E q \in BagRows(procs'[u]) :
             q.kind = "handleUnfollowCreator" /\ procs'[u] = BagAdd(procs[u], q)
        \/ \E p \in ProcsOf(u, "handleUnfollowCreator") :
             CopiesIn(p, procs'[u]) < CopiesIn(p, procs[u]))
       => /\ connection_requests' = connection_requests
          /\ \A r \in BagRows(member_connections) :
               (r.connection_type # "follow" \/ r.member_id # u)
               => CopiesIn(r, member_connections') = CopiesIn(r, member_connections)
    ]_vars

\* nothing that reloads the members or the connections of u is in flight,
\* waiting to fire or waiting to be delivered
ConnectionsSettled(u) ==
  /\ mounted[u] /\ membersLoaded[u]
  /\ ConnectionsIdle
  /\ \A p \in ProcsOf(u, "timer") : p.fn # "loadMembers"
  /\ \A ev \in inbox[u] :
       ev.channel \notin {"member_connections_changes", "connection_requests_changes"}

\* C37: the connections list of a user holds no profile twice, and when
\* nothing that reloads the members or the connections is in flight or
\* pending, a member is shown with connected = TRUE in the members list exactly
\* when the member is in the connections list.
C37_ConnectionsMatchMembers ==
  \A u \in Members :
    /\ \A i, j \in 1..Len(connections[u]) :
         connections[u][i].id = connections[u][j].id => i = j
    /\ ConnectionsSettled(u)
       => \A i \in 1..Len(members[u]) :
            members[u][i].connected
              <=> \E j \in 1..Len(connections[u]) : connections[u][j].id = members[u][i].id

\* C38: a step that generates a toast id appends one entry with that id at the
\* tail of the queue and keeps the entries before it as they are, also when an
\* entry with the same message and type is queued already; a step in which a
\* toast timer fires takes out the entry with the timer's id, if it is queued,
\* and keeps the other entries in their order; no other step changes the queue.
C38_ToastQueueIsFifo ==
  [][\A u \in Members :
       LET q == toasts[u]
           n == Len(toasts[u])
       IN /\ toastSeq'[u] # toastSeq[u]
             => /\ Len(toasts'[u]) = n + 1
                /\ SubSeq(toasts'[u], 1, n) = q
                /\ toasts'[u][n + 1].id = toastSeq'[u]
                /\ \A i \in 1..n : q[i].id # toasts'[u][n + 1].id
          /\ (toastSeq'[u] = toastSeq[u] /\ toastTimers'[u] # toastTimers[u])
             => /\ toastTimers[u] # <<>> /\ toastTimers'[u] = Tail(toastTimers[u])
                /\ \/ /\ \A i \in 1..n : q[i].id # Head(toastTimers[u])
                      /\ toasts'[u] = q
                   \/ \E k \in 1..n :
                        /\ q[k].id = Head(toastTimers[u])
                        /\ toasts'[u] = SubSeq(q, 1, k - 1) \o SubSeq(q, k + 1, n)
          /\ (toastSeq'[u] = toastSeq[u] /\ toastTimers'[u] = toastTimers[u])
             => toasts'[u] = q
    ]_vars

\* three toasts were added, the second and the third with the same message and
\* type; the first has expired and the two equal ones are queued in the order
\* in which they were added
C38_Witness ==
  /\ toastSeq["A"] = 3 /\ Len(toasts["A"]) = 2
  /\ toasts["A"][1].id = 2 /\ toasts["A"][2].id = 3
  /\ toasts["A"][1].message = toasts["A"][2].message
  /\ toasts["A"][1].type = toasts["A"][2].type

====
